---- MODULE Spec2Model ----
(***************************************************************************)
(* A model of the C# "create derived class" editor extension: the          *)
(* derived-class synthesizer, the interface-extraction engine and the      *)
(* move-to-base engine.  Each feature has its own variables, its own       *)
(* initial condition and its own specification; the variables of the       *)
(* other features are held fixed while one feature runs.                   *)
(*                                                                         *)
(* Text is a sequence of one-character strings.  Offsets are 0-based as    *)
(* in the source; Sequences are 1-based, so offset i is element i + 1.     *)
(***************************************************************************)
EXTENDS Integers, Sequences, FiniteSets, TLC

VARIABLES
    \* createDerivedClassFile (sibling-file mode)
    cfFiles,      \* the folder: file name -> "absent" | "existing" | "generated"
    cfPc,         \* position of the command's task
    cfNewName,    \* the newName argument of the running invocation
    cfBefore,     \* what the target file held when the invocation started
    cfOverwrite,  \* the overwrite prompt's answer ("none" before the prompt)
    cfMessage,    \* what the command showed the user: "none" | "info" | "error"
    \* collectMembersWithDependencies (move to base: dependency closure)
    clBody,       \* the source class's body: a sequence of declaration lines
    clRoot,       \* the triggering member (the symbol id; 0 before the call)
    clOrder,      \* the order in which allMembers was passed
    clResult,     \* the returned membersToMove
    \* interface extraction (addMemberToExistingInterface,
    \* createInterfaceWithMember, ensureMethodAccessibility)
    ifDoc,        \* the document's text
    ifMember,     \* the ExtractedMember the code action carries as argument
    ifPc,         \* position of the command's task
    ifEdit,       \* the insertion the task built: position and text
    ifBefore,     \* the document's text when the running invocation started
    ifMessage,    \* the message the invocation showed
    ifInsertions, \* interface name -> insertions applied for ifMember
    ifCalls,      \* invocations of the command so far
    \* move to base class (detectMoveToBaseContext,
    \* buildMoveMemberWorkspaceEdit)
    mvClasses,    \* the document's classes as declared (what the text renders)
    mvText,       \* the document's text
    mvPos,        \* the caret position of the last code-action request
    mvContext,    \* the MoveToBaseContext of that request
    mvEdit,       \* the workspace edit of the offered move action
    \* buildArgumentList (base-call arguments of a generated constructor)
    arParams,     \* the base constructor's parameters as declared
    arList,       \* the parameter-list text given to buildArgumentList
    arArgs,       \* the returned argument list (<<"none">> before the call)
    \* createDerivedClass (detectConstructors, detectAbstractMethodsInClass,
    \* detectAbstractPropertiesInClass, buildDerivedClassText)
    gnMembers,    \* the base class's members as declared
    gnTypeParameters, \* the base class's type parameters (ClassInfo)
    gnText,       \* the document's text
    gnConstructors, \* the ConstructorInfo list of the last generation
    gnMethods,    \* its AbstractMethodInfo list
    gnProperties, \* its AbstractPropertyInfo list
    gnResult,     \* the generated class text (<<"none">> before the command)
    gnSelections, \* the editor's cursors after the command, as offsets
    gnError,      \* the error the command threw ("none": it returned)
    \* getDocumentSymbols (the document symbol cache)
    syModule,     \* the copy of getDocumentSymbols in use
    syVersion,    \* document -> doc.version
    syCache,      \* documentSymbolCache: document -> entry
    syPending,    \* the calls awaiting the symbol provider, oldest first
    syCalls,      \* calls of getDocumentSymbols so far
    syLastCall,   \* the document of the latest call
    syInvoked,    \* invocations of the symbol provider so far
    syReturn,     \* what the latest finished call returned, and from where
    syObtained,   \* document -> the latest tree a call got from the provider
    syAsked,      \* for each pending call, the document's version when the provider was asked
    syTreeOf,     \* document -> the version of the content its cached tree was computed from
    syReturnOf,   \* the latest return: the version its tree was computed from, and the document's
    \* provideCodeActions (the interface extraction actions offered)
    caDoc,        \* the text of the document
    caRequests,   \* runs of provideCodeActions so far
    caSymbols,    \* whether the symbol provider supplied a tree to the latest run
    caPos,        \* range.start of the latest run
    caMember,     \* memberInfo of the latest run: <<kind, name>>
    caActions,    \* the interface extraction actions the latest run offered
    \* navigateClassMembers (next / previous class member)
    nvKinds,      \* the workspace: declaration line -> kind of the member declared there
    nvWrap,       \* the setting wrapNavigation
    nvAcross,     \* the setting navigateAcrossFiles
    nvPartials,   \* whether the other file of the partial class is discovered
    nvCursor,     \* the active editor's document and selection.active
    nvLast,       \* the direction of the latest command
    nvStart,      \* the cursor before the current run of 'next' commands
    nvVisited,    \* the places the current run of 'next' commands revealed
    \* the class-name index (startClassIndexing, enqueueUpdate, flushUpdates)
    ixExists,     \* the workspace: the files that exist
    ixContent,    \* the workspace: file -> the index keys its text declares
    index,        \* index: key -> the files declaring it
    fileToKeys,   \* fileToKeys: file -> its index keys
    pendingUpdates, \* pendingUpdates, in insertion order
    updateTimer,  \* whether updateTimer is set
    ixTimers,     \* the setTimeout callbacks scheduled and not yet run
    ixNotified,   \* file -> enqueueUpdate calls accepted since the last flush
    ixPasses,     \* the flushUpdates passes started so far
    ixEvents,     \* the workspace events delivered so far
    \* findEnclosingSymbolByKind on the symbol trees a provider may return
    enSymbols,    \* the document symbols
    enPos,        \* the position asked for
    enKinds,      \* the kinds asked for
    enResult,     \* what the latest call returned
    enCalls,      \* the calls made so far
    \* isPartialClass / scanLineForPartial over a class header
    psLines,      \* the header lines: range.start.line to selectionRange.start.line
    psLine,       \* the lines scanned so far
    psCol,        \* i: the characters of the current line consumed so far
    psCh,         \* text[i], "" for i = text.length
    psLast,       \* the character the latest iteration looked at
    psState,      \* state: the five ScanState flags
    psToken,      \* token
    psRun,        \* the identifier characters read in a row; a whole `partial` is kept
    psResult,     \* scanning, or what isPartialClass returned
    \* detectPropertyAtPosition over a document and its symbol tree
    exDoc,        \* the lines of the document
    exSymbols,    \* the symbol tree passed to detectPropertyAtPosition
    exPos,        \* pos
    exResult,     \* what detectPropertyAtPosition returned
    exCalls,      \* the calls made so far
    \* ensureIndexBuilding / buildIndex of the class index
    indexReady,   \* indexReady
    indexBuilding, \* indexBuilding is a promise
    bdStage,      \* buildIndex: none, finding, updating, built or failed
    bdPass,       \* the place in ixPasses of the loop of buildIndex over its files
    bdFiles,      \* files: what findFiles resolved to
    bdStarts,     \* the calls of buildIndex
    bdActivations \* the calls of ensureIndexBuilding

cfVars == <<cfFiles, cfPc, cfNewName, cfBefore, cfOverwrite, cfMessage>>
clVars == <<clBody, clRoot, clOrder, clResult>>
ifVars == <<ifDoc, ifMember, ifPc, ifEdit, ifBefore, ifMessage, ifInsertions, ifCalls>>
mvVars == <<mvClasses, mvText, mvPos, mvContext, mvEdit>>
arVars == <<arParams, arList, arArgs>>
gnVars ==
    <<gnMembers, gnTypeParameters, gnText, gnConstructors, gnMethods,
      gnProperties, gnResult, gnSelections, gnError>>

syVars ==
    <<syModule, syVersion, syCache, syPending, syCalls, syLastCall, syInvoked,
      syReturn, syObtained, syAsked, syTreeOf, syReturnOf>>

caVars == <<caDoc, caRequests, caSymbols, caPos, caMember, caActions>>

nvVars == <<nvKinds, nvWrap, nvAcross, nvPartials, nvCursor, nvLast, nvStart, nvVisited>>

ixVars == <<ixExists, ixContent, index, fileToKeys, pendingUpdates, updateTimer, ixTimers, ixNotified, ixPasses, ixEvents>>

enVars == <<enSymbols, enPos, enKinds, enResult, enCalls>>

psVars == <<psLines, psLine, psCol, psCh, psLast, psState, psToken, psRun, psResult>>

exVars == <<exDoc, exSymbols, exPos, exResult, exCalls>>

bdVars == <<indexReady, indexBuilding, bdStage, bdPass, bdFiles, bdStarts, bdActivations>>

vars ==
    <<cfVars, clVars, ifVars, mvVars, arVars, gnVars, syVars,
      caVars, nvVars, ixVars, enVars, psVars, exVars, bdVars>>

----------------------------------------------------------------------------
(* Text.  A text is a sequence of atoms; an atom stands for one character  *)
(* of the source text (a keyword or an identifier fragment is written as   *)
(* one atom), and offsets count atoms.  Two adjacent word atoms form one   *)
(* longer word, as two adjacent letters do.                                *)

NonWordAtoms ==
    {" ", "\n", ";", ",", "(", ")", "{", "}", "[", "]", "<", ">", "=", "=>",
     ":", ".", "///", "/*", "*/", "*", "//", "/", "?"}

WhiteAtoms == {" ", "\n"}

\* \w
IsWordAtom(a) == a \notin NonWordAtoms

\* the regular expression assertion \b at offset p of text
WordBoundary(text, p) ==
    LET before == p > 0 /\ IsWordAtom(text[p])
        after  == p < Len(text) /\ IsWordAtom(text[p + 1])
    IN  before # after

\* the literal lit occurs in text at offset p
MatchesAt(text, p, lit) ==
    /\ p + Len(lit) <= Len(text)
    /\ \A k \in 1..Len(lit) : text[p + k] = lit[k]

\* the concatenation of a sequence of texts
RECURSIVE Concat(_)
Concat(texts) ==
    IF texts = <<>> THEN <<>> ELSE Head(texts) \o Concat(Tail(texts))

\* the elements of a sequence
Range(seq) == {seq[i] : i \in 1..Len(seq)}

\* the sequences without repetition over set, of length lo..hi
DistinctSeqs(set, lo, hi) ==
    {q \in UNION {[1..n -> set] : n \in lo..hi} :
        \A i, j \in 1..Len(q) : i # j => q[i] # q[j]}

Min(a, b) == IF a <= b THEN a ELSE b

\* text.slice(from, to)
Slice(text, from, to) == SubSeq(text, from + 1, to)

\* text.indexOf(lit, from); -1 when there is none
IndexOf(text, lit, from) ==
    LET hits == {p \in from..(Len(text) - Len(lit)) : MatchesAt(text, p, lit)}
    IN  IF hits = {} THEN -1 ELSE CHOOSE p \in hits : \A q \in hits : p <= q

\* text.lastIndexOf(lit); -1 when there is none
LastIndexOf(text, lit) ==
    LET hits == {p \in 0..(Len(text) - Len(lit)) : MatchesAt(text, p, lit)}
    IN  IF hits = {} THEN -1 ELSE CHOOSE p \in hits : \A q \in hits : p >= q

\* the offset after the longest run of \s from offset p on
RECURSIVE SkipWhite(_, _)
SkipWhite(text, p) ==
    IF p < Len(text) /\ text[p + 1] \in WhiteAtoms THEN SkipWhite(text, p + 1) ELSE p

\* the offset after the longest run of \w from offset p on
RECURSIVE WordEnd(_, _)
WordEnd(text, p) ==
    IF p < Len(text) /\ IsWordAtom(text[p + 1]) THEN WordEnd(text, p + 1) ELSE p

----------------------------------------------------------------------------
(* Documents.  A document's text is one sequence of characters with "\n"   *)
(* line breaks (doc.getText()); a position is [line, character], both     *)
(* 0-based.                                                                *)

\* getEOL(doc), for a document with LF line ends
EOL == <<"\n">>

\* the offsets of the line breaks, ascending
NewlineOffsets(text) ==
    LET IsBreak(i) == text[i + 1] = "\n"
    IN  SelectSeq([i \in 1..Len(text) |-> i - 1], IsBreak)

\* doc.lineCount
lineCount(text) == Len(NewlineOffsets(text)) + 1

LineStart(text, line) ==
    IF line = 0 THEN 0 ELSE NewlineOffsets(text)[line] + 1

LineEnd(text, line) ==
    LET breaks == NewlineOffsets(text)
    IN  IF line < Len(breaks) THEN breaks[line + 1] ELSE Len(text)

\* doc.lineAt(line).text
lineAt(text, line) == Slice(text, LineStart(text, line), LineEnd(text, line))

\* doc.offsetAt(position); the editor validates a position first: a line
\* past the last one becomes the last line, a character past the line's
\* end becomes the line's end
offsetAt(text, pos) ==
    LET line == Min(pos.line, lineCount(text) - 1)
    IN  LineStart(text, line)
            + Min(pos.character, LineEnd(text, line) - LineStart(text, line))

\* doc.positionAt(offset)
positionAt(text, offset) ==
    LET line == Cardinality({b \in Range(NewlineOffsets(text)) : b < offset})
    IN  [line |-> line, character |-> offset - LineStart(text, line)]

\* the text after an applied edit.insert(position, inserted)
InsertText(text, offset, inserted) ==
    Slice(text, 0, offset) \o inserted \o Slice(text, offset, Len(text))

\* the text after an applied edit.replace(range, replacement)
ReplaceText(text, from, to, replacement) ==
    Slice(text, 0, from) \o replacement \o Slice(text, to, Len(text))

\* findMatchingBrace; -1 stands for undefined.  The loop over i is taken
\* from one brace to the next: the characters between leave depth alone.
RECURSIVE BraceScan(_, _, _)
BraceScan(text, i, depth) ==
    LET braces == {q \in i..(Len(text) - 1) : text[q + 1] \in {"{", "}"}}
    IN  IF braces = {} THEN -1
        ELSE LET q == CHOOSE x \in braces : \A y \in braces : x <= y
             IN  IF text[q + 1] = "{" THEN BraceScan(text, q + 1, depth + 1)
                 ELSE IF depth = 1 THEN q
                 ELSE BraceScan(text, q + 1, depth - 1)

findMatchingBrace(text, openIndex) == BraceScan(text, openIndex + 1, 1)

----------------------------------------------------------------------------
(* The state of each feature while another feature's specification runs.   *)

CfIdle ==
    /\ cfFiles = <<>>
    /\ cfPc = "idle"
    /\ cfNewName = "none"
    /\ cfBefore = "none"
    /\ cfOverwrite = "none"
    /\ cfMessage = "none"

ClIdle ==
    /\ clBody = <<>>
    /\ clRoot = 0
    /\ clOrder = <<>>
    /\ clResult = <<>>

IfIdle ==
    /\ ifDoc = <<>>
    /\ ifMember = <<>>
    /\ ifPc = "idle"
    /\ ifEdit = <<>>
    /\ ifBefore = <<>>
    /\ ifMessage = "none"
    /\ ifInsertions = <<>>
    /\ ifCalls = 0

MvIdle ==
    /\ mvClasses = <<>>
    /\ mvText = <<>>
    /\ mvPos = <<>>
    /\ mvContext = <<>>
    /\ mvEdit = <<>>

ArIdle ==
    /\ arParams = <<>>
    /\ arList = <<>>
    /\ arArgs = <<>>

GnIdle ==
    /\ gnMembers = <<>>
    /\ gnText = <<>>
    /\ gnConstructors = <<>>
    /\ gnMethods = <<>>
    /\ gnProperties = <<>>
    /\ gnResult = <<>>
    /\ gnTypeParameters = <<>>
    /\ gnSelections = <<>>
    /\ gnError = "none"

SyIdle ==
    /\ syModule = "none"
    /\ syVersion = <<>>
    /\ syCache = <<>>
    /\ syPending = <<>>
    /\ syCalls = 0
    /\ syLastCall = "none"
    /\ syInvoked = 0
    /\ syReturn = <<>>
    /\ syObtained = <<>>
    /\ syAsked = <<>>
    /\ syTreeOf = <<>>
    /\ syReturnOf = <<>>

CaIdle ==
    /\ caDoc = <<>>
    /\ caRequests = 0
    /\ caSymbols = FALSE
    /\ caPos = [line |-> 0, character |-> 0]
    /\ caMember = "none"
    /\ caActions = {}

NvIdle ==
    /\ nvKinds = <<>>
    /\ nvWrap = FALSE
    /\ nvAcross = FALSE
    /\ nvPartials = FALSE
    /\ nvCursor = <<>>
    /\ nvLast = "none"
    /\ nvStart = <<>>
    /\ nvVisited = {}

IxIdle ==
    /\ ixExists = {}
    /\ ixContent = <<>>
    /\ index = <<>>
    /\ fileToKeys = <<>>
    /\ pendingUpdates = <<>>
    /\ updateTimer = FALSE
    /\ ixTimers = 0
    /\ ixNotified = <<>>
    /\ ixPasses = <<>>
    /\ ixEvents = 0

EnIdle ==
    /\ enSymbols = <<>>
    /\ enPos = <<>>
    /\ enKinds = {}
    /\ enResult = <<>>
    /\ enCalls = 0

PsIdle ==
    /\ psLines = 0
    /\ psLine = 0
    /\ psCol = 0
    /\ psCh = ""
    /\ psLast = ""
    /\ psState = <<>>
    /\ psToken = ""
    /\ psRun = ""
    /\ psResult = "idle"

ExIdle ==
    /\ exDoc = <<>>
    /\ exSymbols = <<>>
    /\ exPos = <<>>
    /\ exResult = "idle"
    /\ exCalls = 0

BdIdle ==
    /\ indexReady = FALSE
    /\ indexBuilding = FALSE
    /\ bdStage = "none"
    /\ bdPass = 0
    /\ bdFiles = <<>>
    /\ bdStarts = 0
    /\ bdActivations = 0

\* every feature but the named one is idle
IdleExcept(feature) ==
    /\ IF feature = "file" THEN TRUE ELSE CfIdle
    /\ IF feature = "closure" THEN TRUE ELSE ClIdle
    /\ IF feature = "interface" THEN TRUE ELSE IfIdle
    /\ IF feature = "move" THEN TRUE ELSE MvIdle
    /\ IF feature = "arguments" THEN TRUE ELSE ArIdle
    /\ IF feature = "generate" THEN TRUE ELSE GnIdle
    /\ IF feature = "symbols" THEN TRUE ELSE SyIdle
    /\ IF feature = "actions" THEN TRUE ELSE CaIdle
    /\ IF feature = "navigate" THEN TRUE ELSE NvIdle
    /\ IF feature \in {"index", "build"} THEN TRUE ELSE IxIdle
    /\ IF feature = "enclosing" THEN TRUE ELSE EnIdle
    /\ IF feature = "partial" THEN TRUE ELSE PsIdle
    /\ IF feature = "extract" THEN TRUE ELSE ExIdle
    /\ IF feature = "build" THEN TRUE ELSE BdIdle

\* a step of the named feature leaves the other features' state alone
UnchangedExcept(feature) ==
    /\ IF feature = "file" THEN TRUE ELSE UNCHANGED cfVars
    /\ IF feature = "closure" THEN TRUE ELSE UNCHANGED clVars
    /\ IF feature = "interface" THEN TRUE ELSE UNCHANGED ifVars
    /\ IF feature = "move" THEN TRUE ELSE UNCHANGED mvVars
    /\ IF feature = "arguments" THEN TRUE ELSE UNCHANGED arVars
    /\ IF feature = "generate" THEN TRUE ELSE UNCHANGED gnVars
    /\ IF feature = "symbols" THEN TRUE ELSE UNCHANGED syVars
    /\ IF feature = "actions" THEN TRUE ELSE UNCHANGED caVars
    /\ IF feature = "navigate" THEN TRUE ELSE UNCHANGED nvVars
    /\ IF feature \in {"index", "build"} THEN TRUE ELSE UNCHANGED ixVars
    /\ IF feature = "enclosing" THEN TRUE ELSE UNCHANGED enVars
    /\ IF feature = "partial" THEN TRUE ELSE UNCHANGED psVars
    /\ IF feature = "extract" THEN TRUE ELSE UNCHANGED exVars
    /\ IF feature = "build" THEN TRUE ELSE UNCHANGED bdVars

----------------------------------------------------------------------------
(* Create the derived class in a sibling file: createDerivedClassFile and  *)
(* the command that calls it.                                              *)

\* the names the input box may return (each yields <newName>.cs)
FileNames == {"Circle", "Square", "Oval"}

\* showQuickPick(["Overwrite", "Cancel"]) resolves to a pick or, when the
\* prompt is dismissed, to undefined
QuickPickAnswers == {"Overwrite", "Cancel", "undefined"}

CfInit ==
    /\ cfFiles \in [FileNames -> {"absent", "existing"}]
    /\ cfPc = "idle"
    /\ cfNewName = "none"
    /\ cfBefore = "none"
    /\ cfOverwrite = "none"
    /\ cfMessage = "none"

\* the command: the input box returned newName, createDerivedClassFile is
\* called and builds the content up to the stat call
CfInvoke ==
    /\ cfPc \in {"idle", "done"}
    /\ \E n \in FileNames :
        /\ cfNewName' = n
        /\ cfBefore' = cfFiles[n]
    /\ cfOverwrite' = "none"
    /\ cfMessage' = "none"
    /\ cfPc' = "stat"
    /\ UNCHANGED cfFiles

\* await fs.stat(newFileUri): throws when the file does not exist; the
\* catch block swallows the exception and control reaches writeFile
CfStat ==
    /\ cfPc = "stat"
    /\ cfPc' = IF cfFiles[cfNewName] = "absent" THEN "write" ELSE "prompt"
    /\ UNCHANGED <<cfFiles, cfNewName, cfBefore, cfOverwrite, cfMessage>>

\* where control goes after the prompt resolved to `answer`: a pick other
\* than "Overwrite" throws inside the try block, and the same catch block
\* that handles a failed stat swallows it
AfterOverwritePrompt(answer) == "write"

\* await showQuickPick(...); if (overwrite !== "Overwrite") throw ...
CfPrompt ==
    /\ cfPc = "prompt"
    /\ \E answer \in QuickPickAnswers :
        /\ cfOverwrite' = answer
        /\ cfPc' = AfterOverwritePrompt(answer)
    /\ UNCHANGED <<cfFiles, cfNewName, cfBefore, cfMessage>>

\* await fs.writeFile(newFileUri, content): may fail; the failure reaches
\* the command's catch, which shows "Failed to create file"
CfWrite ==
    /\ cfPc = "write"
    /\ \/ /\ cfFiles' = [cfFiles EXCEPT ![cfNewName] = "generated"]
          /\ cfPc' = "open"
          /\ UNCHANGED cfMessage
       \/ /\ cfPc' = "done"
          /\ cfMessage' = "error"
          /\ UNCHANGED cfFiles
    /\ UNCHANGED <<cfNewName, cfBefore, cfOverwrite>>

\* open the new document, place the selections; the command then shows
\* "Created class ..."
CfOpen ==
    /\ cfPc = "open"
    /\ cfPc' = "done"
    /\ cfMessage' = "info"
    /\ UNCHANGED <<cfFiles, cfNewName, cfBefore, cfOverwrite>>

\* the user removes or restores a file between invocations (the finished
\* invocation's locals are gone by then)
CfUserFile ==
    /\ cfPc \in {"idle", "done"}
    /\ \E f \in FileNames, c \in {"absent", "existing"} :
        /\ cfFiles[f] # c
        /\ cfFiles' = [cfFiles EXCEPT ![f] = c]
    /\ cfPc' = "idle"
    /\ cfNewName' = "none"
    /\ cfBefore' = "none"
    /\ cfOverwrite' = "none"
    /\ cfMessage' = "none"

InitFile == CfInit /\ IdleExcept("file")
NextFile ==
    \/ CfInvoke /\ UnchangedExcept("file")
    \/ CfStat /\ UnchangedExcept("file")
    \/ CfPrompt /\ UnchangedExcept("file")
    \/ CfWrite /\ UnchangedExcept("file")
    \/ CfOpen /\ UnchangedExcept("file")
    \/ CfUserFile /\ UnchangedExcept("file")
SpecFile == InitFile /\ [][NextFile]_vars

\* C1: when <newName>.cs exists and the overwrite prompt is answered with
\* anything but "Overwrite" (or dismissed), the invocation ends with the
\* existing file untouched and with no message shown.
C1_DeclinedOverwriteAborts ==
    cfOverwrite \in {"Cancel", "undefined"}
        => /\ cfFiles[cfNewName] = cfBefore
           /\ cfMessage = "none"

----------------------------------------------------------------------------
(* Move to base class: the dependency closure,                             *)
(* collectMembersWithDependencies.                                         *)

\* the most declaration lines in the source class's body
MaxBodyLines == 3

\* The declaration lines a class body is made of, each with the names of
\* the member symbols the symbol provider reports for it.
\*   int a, b;              two field symbols on one line
\*   int c = a;
\*   void f() { c; }
\*   int ab;                the identifier "ab"
\*   int d = f();
DeclLines ==
    { [text  |-> <<"int", " ", "a", ",", " ", "b", ";">>,
       names |-> << <<"a">>, <<"b">> >>],
      [text  |-> <<"int", " ", "c", " ", "=", " ", "a", ";">>,
       names |-> << <<"c">> >>],
      [text  |-> <<"void", " ", "f", "(", ")", " ", "{", " ", "c", ";", " ", "}">>,
       names |-> << <<"f">> >>],
      [text  |-> <<"int", " ", "a", "b", ";">>,
       names |-> << <<"a", "b">> >>],
      [text  |-> <<"int", " ", "d", " ", "=", " ", "f", "(", ")", ";">>,
       names |-> << <<"d">> >>] }

\* doc.offsetAt(Position(line, 0)) within the body (lines are 1-based here)
RECURSIVE LineOffset(_, _)
LineOffset(body, line) ==
    IF line <= 1 THEN 0
    ELSE LineOffset(body, line - 1) + Len(body[line - 1].text) + 1

\* collectMovableMembers: one entry per member symbol; its range runs from
\* column 0 of its first line to the end of its last line, line break
\* included; the entries are sorted by order (a stable sort)
RECURSIVE MembersFrom(_, _)
MembersFrom(body, line) ==
    IF line > Len(body) THEN <<>>
    ELSE [k \in 1..Len(body[line].names) |->
            [symbol    |-> 2 * (line - 1) + k,
             name      |-> body[line].names[k],
             line      |-> line,
             character |-> 0,
             text      |-> body[line].text \o <<"\n">>,
             order     |-> LineOffset(body, line)]]
         \o MembersFrom(body, line + 1)

collectMovableMembers(body) == MembersFrom(body, 1)

\* usesMemberName: new RegExp(`\\b${escapeRegExp(memberName)}\\b`).test(text)
usesMemberName(text, memberName) ==
    /\ memberName # <<>>
    /\ \E p \in 0..(Len(text) - Len(memberName)) :
        /\ WordBoundary(text, p)
        /\ MatchesAt(text, p, memberName)
        /\ WordBoundary(text, p + Len(memberName))

\* memberKey: `${range.start.line}:${range.start.character}`
memberKey(member) == <<member.line, member.character>>

\* the for loop over allMembers, from index i on, for the popped member
RECURSIVE ScanCandidates(_, _, _, _, _, _)
ScanCandidates(current, allMembers, i, stack, seenKeys, queuedKeys) ==
    IF i > Len(allMembers) THEN [stack |-> stack, queuedKeys |-> queuedKeys]
    ELSE LET candidate == allMembers[i]
             candidateKey == memberKey(candidate)
         IN  IF candidate.symbol = current.symbol
             THEN ScanCandidates(current, allMembers, i + 1, stack, seenKeys, queuedKeys)
             ELSE IF candidateKey \in seenKeys \/ candidateKey \in queuedKeys
             THEN ScanCandidates(current, allMembers, i + 1, stack, seenKeys, queuedKeys)
             ELSE IF usesMemberName(current.text, candidate.name)
             THEN ScanCandidates(current, allMembers, i + 1,
                                 Append(stack, candidate), seenKeys,
                                 queuedKeys \cup {candidateKey})
             ELSE ScanCandidates(current, allMembers, i + 1, stack, seenKeys, queuedKeys)

\* the while loop
RECURSIVE CollectLoop(_, _, _, _, _)
CollectLoop(stack, seenKeys, queuedKeys, result, allMembers) ==
    IF stack = <<>> THEN result
    ELSE LET current == stack[Len(stack)]
             popped  == SubSeq(stack, 1, Len(stack) - 1)
             key     == memberKey(current)
         IN  IF key \in seenKeys
             THEN CollectLoop(popped, seenKeys, queuedKeys, result, allMembers)
             ELSE LET seen == seenKeys \cup {key}
                      scan == ScanCandidates(current, allMembers, 1, popped,
                                             seen, queuedKeys)
                  IN  CollectLoop(scan.stack, seen, scan.queuedKeys,
                                  Append(result, current), allMembers)

collectMembersWithDependencies(root, allMembers) ==
    CollectLoop(<<root>>, {}, {memberKey(root)}, <<>>, allMembers)

ClInit ==
    /\ clBody \in DistinctSeqs(DeclLines, 1, MaxBodyLines)
    /\ clRoot = 0
    /\ clOrder = <<>>
    /\ clResult = <<>>

\* allMembers in the order given by the permutation order
Reordered(allMembers, order) == [i \in 1..Len(allMembers) |-> allMembers[order[i]]]

\* buildMoveMemberWorkspaceEdit calls collectMembersWithDependencies for
\* the triggering member
ClCollect ==
    /\ clRoot = 0
    /\ LET allMembers == collectMovableMembers(clBody)
       IN  \E r \in 1..Len(allMembers) :
           \E order \in DistinctSeqs(1..Len(allMembers), Len(allMembers), Len(allMembers)) :
               /\ clRoot' = allMembers[r].symbol
               /\ clOrder' = order
               /\ clResult' = collectMembersWithDependencies(
                                  allMembers[r], Reordered(allMembers, order))
    /\ UNCHANGED clBody

InitClosure == ClInit /\ IdleExcept("closure")
NextClosure == ClCollect /\ UnchangedExcept("closure")
SpecClosure == InitClosure /\ [][NextClosure]_vars

\* the members reachable from the members in set through "X's text
\* contains Y's name as a whole word"
RECURSIVE ReachableFrom(_, _)
ReachableFrom(set, all) ==
    LET more == set \cup {y \in all : \E x \in set : usesMemberName(x.text, y.name)}
    IN  IF more = set THEN set ELSE ReachableFrom(more, all)

\* C2: collectMembersWithDependencies returns exactly the members
\* reachable from the triggering member through "X's text contains Y's
\* name as a whole word", each once, whatever the order of allMembers.
C2_ClosureIsReachableSet ==
    clRoot # 0 =>
        LET all  == Range(collectMovableMembers(clBody))
            root == CHOOSE m \in all : m.symbol = clRoot
        IN  /\ Range(clResult) = ReachableFrom({root}, all)
            /\ \A i, j \in 1..Len(clResult) : i # j => clResult[i] # clResult[j]

----------------------------------------------------------------------------
(* Interface extraction: addMemberToExistingInterface,                     *)
(* createInterfaceWithMember and ensureMethodAccessibility, run by the     *)
(* extension.addPropertyToInterface command with the member the code       *)
(* action captured.                                                        *)

\* the most invocations of the command in one behaviour
MaxCalls == 2

TxtInterface == <<"i", "n", "t", "e", "r", "f", "a", "c", "e">>
TxtNamespace == <<"n", "a", "m", "e", "s", "p", "a", "c", "e">>
TxtClass     == <<"c", "l", "a", "s", "s">>
TxtPrivate   == <<"p", "r", "i", "v", "a", "t", "e">>
TxtPublic    == <<"p", "u", "b", "l", "i", "c">>
TxtProtected == <<"p", "r", "o", "t", "e", "c", "t", "e", "d">>
TxtInternal  == <<"i", "n", "t", "e", "r", "n", "a", "l">>
TxtVoid      == <<"v", "o", "i", "d">>
TxtInt       == <<"i", "n", "t">>
TxtGet       == <<"g", "e", "t">>
TxtSet       == <<"s", "e", "t">>
TxtInit      == <<"i", "n", "i", "t">>
FourSpaces   == <<" ", " ", " ", " ">>

\* the identifiers of the documents below
NameI   == <<"I">>
NameJ   == <<"J">>
NameC   == <<"C">>
NameBar == <<"B", "a", "r">>
NameBaz == <<"B", "a", "z">>
NameQux == <<"Q", "u", "x">>

InterfaceNames == {NameI, NameJ}

\* the member declarations the caret may be on (one line each, indented
\* once inside class C):
\*     private void Bar() { }      public void Bar() { }
\*     void Bar() { }              public int Baz { get; }
MemberLines ==
    { FourSpaces \o TxtPrivate \o <<" ">> \o TxtVoid \o <<" ">> \o NameBar \o <<"(", ")", " ", "{", " ", "}">>,
      FourSpaces \o TxtPublic \o <<" ">> \o TxtVoid \o <<" ">> \o NameBar \o <<"(", ")", " ", "{", " ", "}">>,
      FourSpaces \o TxtVoid \o <<" ">> \o NameBar \o <<"(", ")", " ", "{", " ", "}">>,
      FourSpaces \o TxtPublic \o <<" ">> \o TxtInt \o <<" ">> \o NameBaz \o <<" ", "{", " ", "g", "e", "t", ";", " ", "}">> }

\* what interface I declares already: nothing, `void Qux();` or `void Bar();`
InterfaceBodies ==
    { <<>>,
      TxtVoid \o <<" ">> \o NameQux \o <<"(", ")", ";">>,
      TxtVoid \o <<" ">> \o NameBar \o <<"(", ")", ";">> }

\* interface I in Allman style at the given indentation
InterfaceBlock(indent, body) ==
    indent \o TxtInterface \o <<" ">> \o NameI \o EOL
    \o indent \o <<"{">> \o EOL
    \o (IF body = <<>> THEN <<>> ELSE indent \o FourSpaces \o body \o EOL)
    \o indent \o <<"}">> \o EOL

ClassBlock(inner) ==
    TxtClass \o <<" ">> \o NameC \o EOL \o <<"{">> \o EOL \o inner \o <<"}">> \o EOL

\* the documents: interface I declared before class C, after it, nested in
\* it before the member, or not at all
Layouts == {"interfaceFirst", "classFirst", "nested", "noInterface"}

Document(layout, body, memberLine) ==
    CASE layout = "interfaceFirst" ->
            InterfaceBlock(<<>>, body) \o ClassBlock(memberLine \o EOL)
      [] layout = "classFirst" ->
            ClassBlock(memberLine \o EOL) \o InterfaceBlock(<<>>, body)
      [] layout = "nested" ->
            ClassBlock(InterfaceBlock(FourSpaces, body) \o memberLine \o EOL)
      [] OTHER ->
            ClassBlock(memberLine \o EOL)

Accessibilities == {TxtPublic, TxtProtected, TxtInternal, TxtPrivate}

\* /\bword\b/.test(text)
HasWord(text, word) ==
    \E p \in 0..(Len(text) - Len(word)) :
        WordBoundary(text, p) /\ MatchesAt(text, p, word)
            /\ WordBoundary(text, p + Len(word))

NoPosition == [line |-> 0, character |-> 0]

\* extractMethodFromSymbol and extractPropertyFromSymbol for the member
\* symbol that starts on line symbolLine: the regular expression is run
\* on the text from column 0 of that line.  The declarations of this model
\* carry no attribute and no modifier other than the accessibility, so the
\* match starts at the first word of the line.  kind "none" stands for
\* undefined (not extractable).
extractMemberFromSymbol(text, symbolLine) ==
    LET from       == LineStart(text, symbolLine)
        matchIndex == CHOOSE p \in from..Len(text) :
                        /\ WordBoundary(text, p) /\ p < Len(text)
                        /\ IsWordAtom(text[p + 1])
                        /\ \A q \in from..(p - 1) :
                            ~(WordBoundary(text, q) /\ IsWordAtom(text[q + 1]))
        first      == Slice(text, matchIndex, WordEnd(text, matchIndex))
        hasAcc     == first \in Accessibilities
        accessibility == IF hasAcc THEN first ELSE <<>>
        typeStart  == IF hasAcc THEN SkipWhite(text, WordEnd(text, matchIndex))
                                ELSE matchIndex
        typeEnd    == WordEnd(text, typeStart)
        nameStart  == SkipWhite(text, typeEnd)
        nameEnd    == WordEnd(text, nameStart)
        open       == SkipWhite(text, nameEnd)
        isMethod   == open < Len(text) /\ text[open + 1] = "("
        close      == IndexOf(text, IF isMethod THEN <<")">> ELSE <<"}">>, open)
        inside     == Slice(text, open + 1, close)
        startOffset == matchIndex
        relIndex   == IndexOf(Slice(text, matchIndex, Len(text)), accessibility, 0)
        info == [kind |-> IF isMethod THEN "method" ELSE "property",
                 name |-> Slice(text, nameStart, nameEnd),
                 type |-> Slice(text, typeStart, typeEnd),
                 parameters |-> IF isMethod THEN inside ELSE <<>>,
                 fullTypeParameterText |-> <<>>,
                 constraints |-> <<>>,
                 accessibility |-> accessibility,
                 hasRange |-> isMethod /\ hasAcc,
                 rangeStart |-> IF isMethod /\ hasAcc
                                THEN positionAt(text, startOffset + relIndex)
                                ELSE NoPosition,
                 rangeEnd |-> IF isMethod /\ hasAcc
                              THEN positionAt(text, startOffset + relIndex
                                                     + Len(accessibility))
                              ELSE NoPosition,
                 hasGetter |-> ~isMethod /\ (HasWord(inside, TxtGet)
                                             \/ IndexOf(inside, <<"=", ">">>, 0) >= 0),
                 hasSetter |-> ~isMethod /\ HasWord(inside, TxtSet),
                 hasInit |-> ~isMethod /\ HasWord(inside, TxtInit),
                 startOffset |-> startOffset]
        extractable ==
            IF isMethod
            THEN accessibility \in {<<>>, TxtPublic, TxtPrivate}
            ELSE /\ accessibility = TxtPublic
                 /\ info.hasGetter \/ info.hasSetter \/ info.hasInit
    IN  IF extractable THEN info ELSE [info EXCEPT !.kind = "none"]

\* detectMemberIndentation; <<>> stands for undefined
RECURSIVE IndentScan(_, _, _)
IndentScan(text, line, endLine) ==
    IF line >= endLine THEN <<>>
    ELSE LET t    == lineAt(text, line)
             lead == Slice(t, 0, SkipWhite(t, 0))
         IN  IF lead = t THEN IndentScan(text, line + 1, endLine)
             ELSE IF lead # <<>> THEN lead
             ELSE IndentScan(text, line + 1, endLine)

detectMemberIndentation(text, bodyStart, bodyEnd) ==
    IndentScan(text, positionAt(text, bodyStart).line, positionAt(text, bodyEnd).line)

\* detectInterfacesInDocument: the interfaces of the document, each with
\* the offset `at` of its declaration (the order of the returned list).
\* createInterfaceInfoFromSymbol, given the ranges a symbol provider
\* reports for these documents, and detectInterfacesInDocumentLegacy yield
\* the same name, bodyText, insertPosition and memberIndent.
detectInterfacesInDocument(text) ==
    LET starts == {p \in 0..(Len(text) - Len(TxtInterface)) :
                      /\ WordBoundary(text, p)
                      /\ MatchesAt(text, p, TxtInterface)
                      /\ SkipWhite(text, p + Len(TxtInterface)) > p + Len(TxtInterface)
                      /\ WordEnd(text, SkipWhite(text, p + Len(TxtInterface)))
                            > SkipWhite(text, p + Len(TxtInterface))}
        Info(p) ==
            LET nameStart    == SkipWhite(text, p + Len(TxtInterface))
                lastIndex    == WordEnd(text, nameStart)
                braceIndex   == IndexOf(text, <<"{">>, lastIndex)
                closingIndex == IF braceIndex = -1 THEN -1
                                ELSE findMatchingBrace(text, braceIndex)
                found        == closingIndex # -1
                indent       == IF found
                                THEN detectMemberIndentation(text, braceIndex + 1,
                                                             closingIndex)
                                ELSE <<>>
            IN  [at |-> p,
                 found |-> found,
                 name |-> Slice(text, nameStart, lastIndex),
                 bodyText |-> IF found THEN Slice(text, braceIndex + 1, closingIndex)
                              ELSE <<>>,
                 insertPosition |-> IF found THEN positionAt(text, closingIndex)
                                    ELSE NoPosition,
                 memberIndent |-> IF indent = <<>> THEN FourSpaces ELSE indent]
    IN  {i \in {Info(p) : p \in starts} : i.found}

\* the pattern of isMemberDeclaredInInterfaces matches bodyText at p:
\* \bname\b\s*\{ for a property, \bname\b\s*(<[^>]+>)?\s*\( for a method
NamePatternAt(bodyText, p, member) ==
    /\ WordBoundary(bodyText, p)
    /\ MatchesAt(bodyText, p, member.name)
    /\ WordBoundary(bodyText, p + Len(member.name))
    /\ LET q == SkipWhite(bodyText, p + Len(member.name))
       IN  IF member.kind = "property"
           THEN q < Len(bodyText) /\ bodyText[q + 1] = "{"
           ELSE LET closing == IndexOf(bodyText, <<">">>, q + 1)
                    generic == /\ q < Len(bodyText) /\ bodyText[q + 1] = "<"
                               /\ closing > q + 1
                    r == SkipWhite(bodyText, IF generic THEN closing + 1 ELSE q)
                IN  r < Len(bodyText) /\ bodyText[r + 1] = "("

isMemberDeclaredInInterfaces(member, interfaces) ==
    \E i \in interfaces :
        \E p \in 0..(Len(i.bodyText) - Len(member.name)) :
            NamePatternAt(i.bodyText, p, member)

buildInterfaceMemberLine(member, indent, eol) ==
    IF member.kind = "property"
    THEN indent \o member.type \o <<" ">> \o member.name \o <<" ", "{">>
         \o (IF member.hasGetter THEN <<" ">> \o TxtGet \o <<";">> ELSE <<>>)
         \o (IF member.hasSetter THEN <<" ">> \o TxtSet \o <<";">> ELSE <<>>)
         \o (IF member.hasInit THEN <<" ">> \o TxtInit \o <<";">> ELSE <<>>)
         \o <<" ", "}">> \o eol
    ELSE indent \o member.type \o <<" ">> \o member.name
         \o member.fullTypeParameterText \o <<"(">> \o member.parameters \o <<")">>
         \o (IF member.constraints # <<>> THEN <<" ">> \o member.constraints ELSE <<>>)
         \o <<";">> \o eol

\* buildInterfaceDeclaration; the members of this model use no type
\* parameter of the class, so the generic suffix is empty
buildInterfaceDeclaration(interfaceName, member, indentLevel, eol) ==
    LET indent == IF indentLevel = 0 THEN <<>> ELSE FourSpaces
    IN  indent \o TxtPublic \o <<" ">> \o TxtInterface \o <<" ">> \o interfaceName \o eol
        \o indent \o <<"{">> \o eol
        \o buildInterfaceMemberLine(member, indent \o FourSpaces, eol)
        \o indent \o <<"}">> \o eol

\* the offset after the longest run of [\w\.] from offset p on
RECURSIVE DottedEnd(_, _)
DottedEnd(text, p) ==
    IF p < Len(text) /\ (IsWordAtom(text[p + 1]) \/ text[p + 1] = ".")
    THEN DottedEnd(text, p + 1) ELSE p

\* the matches of /\bnamespace\s+([A-Za-z_][\w\.]*)\s*(\{|\;)/g
NamespaceMatches(text) ==
    {p \in 0..(Len(text) - Len(TxtNamespace)) :
        /\ WordBoundary(text, p)
        /\ MatchesAt(text, p, TxtNamespace)
        /\ LET nameStart == SkipWhite(text, p + Len(TxtNamespace))
               nameEnd   == DottedEnd(text, nameStart)
               delimiter == SkipWhite(text, nameEnd)
           IN  /\ nameStart > p + Len(TxtNamespace)
               /\ nameEnd > nameStart
               /\ delimiter < Len(text)
               /\ text[delimiter + 1] \in {"{", ";"}}

\* the while loop of detectNamespaceBlock over the matches from offset
\* `from` on; type "none" stands for undefined
RECURSIVE NamespaceLoop(_, _, _, _)
NamespaceLoop(text, from, targetOffset, fallbackBlock) ==
    LET rest == {p \in NamespaceMatches(text) : p >= from}
    IN  IF rest = {} THEN fallbackBlock
        ELSE LET p == CHOOSE x \in rest : \A y \in rest : x <= y
                 delimiter == SkipWhite(text, DottedEnd(text,
                                  SkipWhite(text, p + Len(TxtNamespace))))
                 braceIndex == IndexOf(text, <<"{">>, p)
                 closingIndex == IF braceIndex = -1 THEN -1
                                 ELSE findMatchingBrace(text, braceIndex)
                 info == [type |-> "block",
                          insertPosition |-> positionAt(text, closingIndex)]
             IN  IF text[delimiter + 1] = ";"
                 THEN [type |-> "fileScoped",
                       insertPosition |-> positionAt(text, Len(text))]
                 ELSE IF closingIndex = -1
                 THEN NamespaceLoop(text, delimiter + 1, targetOffset, fallbackBlock)
                 ELSE IF targetOffset > braceIndex /\ targetOffset < closingIndex
                 THEN info
                 ELSE NamespaceLoop(text, delimiter + 1, targetOffset,
                                    IF fallbackBlock.type = "none" THEN info
                                    ELSE fallbackBlock)

detectNamespaceBlock(text, targetOffset) ==
    NamespaceLoop(text, 0, targetOffset,
                  [type |-> "none", insertPosition |-> NoPosition])

\* whether the insertion must start with a line break: the eol.length
\* characters before the insert offset are not a line break
NeedsLeadingEol(text, insertOffset, eol) ==
    Slice(text, IF insertOffset - Len(eol) > 0 THEN insertOffset - Len(eol) ELSE 0,
          insertOffset) # eol

\* addMemberToExistingInterface up to applyEdit: what it decides
AddPlan(text, interfaceName, member) ==
    LET interfaces == detectInterfacesInDocument(text)
        named      == {i \in interfaces : i.name = interfaceName}
    IN  IF named = {} THEN [outcome |-> "notFound", position |-> NoPosition,
                            text |-> <<>>]
        ELSE LET target == CHOOSE i \in named : \A j \in named : i.at <= j.at
                 insertOffset == offsetAt(text, target.insertPosition)
             IN  IF isMemberDeclaredInInterfaces(member, {target})
                 THEN [outcome |-> "exists", position |-> NoPosition, text |-> <<>>]
                 ELSE [outcome |-> "insert",
                       position |-> target.insertPosition,
                       text |-> (IF NeedsLeadingEol(text, insertOffset, EOL)
                                 THEN EOL ELSE <<>>)
                                \o buildInterfaceMemberLine(member,
                                       target.memberIndent, EOL)]

\* createInterfaceWithMember up to applyEdit: the insertion it builds
CreatePlan(text, interfaceName, member) ==
    LET namespaceInfo == detectNamespaceBlock(text, member.startOffset)
    IN  IF namespaceInfo.type = "block"
        THEN LET insertOffset == offsetAt(text, namespaceInfo.insertPosition)
             IN  [outcome |-> "insert",
                  position |-> namespaceInfo.insertPosition,
                  text |-> (IF NeedsLeadingEol(text, insertOffset, EOL)
                            THEN EOL ELSE <<>>)
                           \o buildInterfaceDeclaration(interfaceName, member, 1, EOL)]
        ELSE [outcome |-> "insert",
              position |-> positionAt(text, Len(text)),
              text |-> (IF Len(text) > 0 THEN EOL ELSE <<>>)
                       \o buildInterfaceDeclaration(interfaceName, member, 0, EOL)]

\* the guard of ensureMethodAccessibility: a private method with a range
NeedsPublic(member) ==
    member.kind = "method" /\ member.accessibility = TxtPrivate /\ member.hasRange

NoEdit == [path |-> "none", into |-> <<>>, position |-> NoPosition, text |-> <<>>]

\* the state when the code action has been offered: the member was
\* extracted from the document the user sees
IfInit ==
    /\ \E layout \in Layouts, body \in InterfaceBodies, memberLine \in MemberLines :
        /\ layout = "noInterface" => body = <<>>
        /\ ifDoc = Document(layout, body, memberLine)
        /\ ifMember = extractMemberFromSymbol(ifDoc,
                          positionAt(ifDoc, IndexOf(ifDoc, memberLine, 0)).line)
    /\ ifPc = "idle"
    /\ ifEdit = NoEdit
    /\ ifBefore = <<>>
    /\ ifMessage = "none"
    /\ ifInsertions = [n \in InterfaceNames |-> 0]
    /\ ifCalls = 0

\* the command up to its first applyEdit, with interfaceName the target
\* interface (path "add") or the name of the interface to create (path
\* "create")
IfStart(path, interfaceName) ==
    /\ ifPc \in {"idle", "done"}
    /\ ifCalls < MaxCalls
    /\ ifCalls' = ifCalls + 1
    /\ ifBefore' = ifDoc
    /\ \E plan \in {IF path = "add" THEN AddPlan(ifDoc, interfaceName, ifMember)
                     ELSE CreatePlan(ifDoc, interfaceName, ifMember)} :
        IF plan.outcome = "insert"
        THEN /\ ifEdit' = [path |-> path, into |-> interfaceName,
                           position |-> plan.position, text |-> plan.text]
             /\ ifPc' = "applyInsert"
             /\ ifMessage' = "none"
        ELSE /\ ifEdit' = NoEdit
             /\ ifPc' = "done"
             /\ ifMessage' = plan.outcome
    /\ UNCHANGED <<ifDoc, ifMember, ifInsertions>>

\* "Add to interface X": the command with args.targetInterfaceName
IfAddToInterface ==
    \E interfaceName \in InterfaceNames : IfStart("add", interfaceName)

\* "Extract to interface...": the input box returns a name; an interface
\* of that name in the document is added to, otherwise one is created
IfExtractToInterface ==
    \E interfaceName \in InterfaceNames :
        IF \E i \in detectInterfacesInDocument(ifDoc) : i.name = interfaceName
        THEN IfStart("add", interfaceName)
        ELSE IfStart("create", interfaceName)

\* await applyEdit(edit) for the insertion; applied is the host's answer
IfApplyInsert ==
    /\ ifPc = "applyInsert"
    /\ \E applied \in BOOLEAN :
        IF applied
        THEN /\ ifDoc' = InsertText(ifDoc, offsetAt(ifDoc, ifEdit.position), ifEdit.text)
             /\ ifInsertions' = [ifInsertions EXCEPT ![ifEdit.into] = @ + 1]
             /\ IF NeedsPublic(ifMember)
                THEN ifPc' = "applyAccess" /\ ifMessage' = "none"
                ELSE ifPc' = "done"
                     /\ ifMessage' = IF ifEdit.path = "add" THEN "added" ELSE "created"
        ELSE /\ ifPc' = "done"
             /\ ifMessage' = "failed"
             /\ UNCHANGED <<ifDoc, ifInsertions>>
    /\ UNCHANGED <<ifMember, ifEdit, ifBefore, ifCalls>>

\* ensureMethodAccessibility: a second edit replaces the range recorded in
\* the member by "public"; its applyEdit answer is not looked at
IfEnsureAccessibility ==
    /\ ifPc = "applyAccess"
    /\ \E applied \in BOOLEAN :
        ifDoc' = IF applied
                 THEN ReplaceText(ifDoc, offsetAt(ifDoc, ifMember.rangeStart),
                                  offsetAt(ifDoc, ifMember.rangeEnd), TxtPublic)
                 ELSE ifDoc
    /\ ifPc' = "done"
    /\ ifMessage' = IF ifEdit.path = "add" THEN "added" ELSE "created"
    /\ UNCHANGED <<ifMember, ifEdit, ifBefore, ifInsertions, ifCalls>>

InitIface == IfInit /\ IdleExcept("interface")
NextIface ==
    \/ IfAddToInterface /\ UnchangedExcept("interface")
    \/ IfExtractToInterface /\ UnchangedExcept("interface")
    \/ IfApplyInsert /\ UnchangedExcept("interface")
    \/ IfEnsureAccessibility /\ UnchangedExcept("interface")
SpecIface == InitIface /\ [][NextIface]_vars

\* C3: adding a member to an interface is idempotent: however often the
\* command runs with the same member, each interface receives at most one
\* inserted declaration of it.
C3_AddTwiceInsertsOnce ==
    \A n \in DOMAIN ifInsertions : ifInsertions[n] <= 1

\* the method of the member is declared `public` in the document
MethodIsPublic(text) ==
    IndexOf(text, TxtPublic \o <<" ">> \o ifMember.type \o <<" ">>
                  \o ifMember.name \o <<"(">>, 0) >= 0

\* C4: for a private method the insertion and the private -> public
\* rewrite are one atomic batch: whenever the command is not running,
\* the interface text has been inserted iff the method has become public.
C4_InsertionAndRewriteAtomic ==
    (ifPc \in {"idle", "done"} /\ ifMember # <<>> /\ NeedsPublic(ifMember))
        => ((\E n \in DOMAIN ifInsertions : ifInsertions[n] > 0)
                <=> MethodIsPublic(ifDoc))

\* the document before the command with the command's insertion applied
WithInsertion ==
    InsertText(ifBefore, offsetAt(ifBefore, ifEdit.position), ifEdit.text)

\* text with the `private` of the member's own declaration made `public`
WithMethodPublic(text) ==
    LET declaration == TxtPrivate \o <<" ">> \o ifMember.type \o <<" ">>
                       \o ifMember.name \o <<"(">>
        at == IndexOf(text, declaration, 0)
    IN  IF at = -1 THEN text
        ELSE ReplaceText(text, at, at + Len(TxtPrivate), TxtPublic)

\* C5: after an extraction that reported success, the document is the
\* document before it with the interface text inserted and, for a private
\* method only, that method's own `private` replaced by `public`; nothing
\* else is replaced, wherever the insertion was made.
C5_OnlyPrivateTokenReplaced ==
    (ifPc = "done" /\ ifMessage \in {"added", "created"})
        => IF NeedsPublic(ifMember)
           THEN ifDoc \in {WithInsertion, WithMethodPublic(WithInsertion)}
           ELSE ifDoc = WithInsertion
----------------------------------------------------------------------------
(* Move to base class: the move branch of provideCodeActions, which calls  *)
(* detectMoveToBaseContext and, for a context, buildMoveMemberWorkspaceEdit.*)

\* the most members a class of the documents below declares
MaxMembers == 2

TxtGlobal == <<"g", "l", "o", "b", "a", "l", ":", ":">>
TxtWhere  == <<"w", "h", "e", "r", "e">>

\* Member declarations as written in the source class: the lines before
\* the declaration (attributes, comments), the accessibility token (<<>>
\* for none) and the rest of the declaration line.
\*     private int x;                  [Obsolete]
\*                                     /// total
\*     /// private total               private int y = x;
\*     public int T => y;
\*                                     /** cache */
\*     int P { get; private set; }     private int z;
\*     D() { }                         (a constructor)
MemberBlocks ==
    { [kind |-> "Field", name |-> <<"x">>, lead |-> <<>>,
       accessibility |-> TxtPrivate, rest |-> <<"i", "n", "t", " ", "x", ";">>],
      [kind |-> "Field", name |-> <<"y">>,
       lead |-> << <<"[", "O", "b", "s", "o", "l", "e", "t", "e", "]">>, <<"/", "/", "/", " ", "t", "o", "t", "a", "l">> >>,
       accessibility |-> TxtPrivate, rest |-> <<"i", "n", "t", " ", "y", " ", "=", " ", "x", ";">>],
      [kind |-> "Property", name |-> <<"T">>, lead |-> << <<"/", "/", "/", " ", "p", "r", "i", "v", "a", "t", "e", " ", "t", "o", "t", "a", "l">> >>,
       accessibility |-> TxtPublic, rest |-> <<"i", "n", "t", " ", "T", " ", "=", ">", " ", "y", ";">>],
      [kind |-> "Field", name |-> <<"z">>, lead |-> << <<"/", "*", "*", " ", "c", "a", "c", "h", "e", " ", "*", "/">> >>,
       accessibility |-> TxtPrivate, rest |-> <<"i", "n", "t", " ", "z", ";">>],
      [kind |-> "Property", name |-> <<"P">>, lead |-> <<>>,
       accessibility |-> <<>>, rest |-> <<"i", "n", "t", " ", "P", " ", "{", " ", "g", "e", "t", ";", " ", "p", "r", "i", "v", "a", "t", "e", " ", "s", "e", "t", ";", " ", "}">>],
      [kind |-> "Constructor", name |-> <<"D">>, lead |-> <<>>,
       accessibility |-> <<>>, rest |-> <<"D", "(", ")", " ", "{", " ", "}">>] }

\* The source class's declaration: the symbol name, the header text after
\* `class `, the base class it declares (<<>> for none), and where class B
\* is declared relative to it in the documents of this model.
\*     class D                       class D : B
\*     class D : global::N.B<int>, I class D<T> where T : B
\*     class D : X                   class B<T> : B
SourceHeaders ==
    { [name |-> <<"D">>, header |-> <<"D">>, base |-> <<>>,
       placements |-> {"before"}],
      [name |-> <<"D">>, header |-> <<"D", " ", ":", " ", "B">>, base |-> <<"B">>,
       placements |-> {"before", "after", "absent"}],
      [name |-> <<"D">>, header |-> <<"D", " ", ":", " ", "g", "l", "o", "b", "a", "l", ":", ":", "N", ".", "B", "<", "i", "n", "t", ">", ",", " ", "I">>, base |-> <<"B">>,
       placements |-> {"before"}],
      [name |-> <<"D", "<", "T", ">">>, header |-> <<"D", "<", "T", ">", " ", "w", "h", "e", "r", "e", " ", "T", " ", ":", " ", "B">>, base |-> <<>>,
       placements |-> {"before"}],
      [name |-> <<"D">>, header |-> <<"D", " ", ":", " ", "X">>, base |-> <<"X">>,
       placements |-> {"before"}],
      [name |-> <<"B", "<", "T", ">">>, header |-> <<"B", "<", "T", ">", " ", ":", " ", "B">>, base |-> <<"B">>,
       placements |-> {"before", "after"}] }

\* class B, without members
BaseClass == [name |-> <<"B">>, header |-> <<"B">>, base |-> <<>>, members |-> <<>>]

DeclarationLine(block) ==
    FourSpaces
    \o (IF block.accessibility = <<>> THEN <<>> ELSE block.accessibility \o <<" ">>)
    \o block.rest

\* the lines of a declaration after its first line
TailOf(block) == IF "tail" \in DOMAIN block THEN block.tail ELSE <<>>

\* the lines of a member: its lead lines, then its declaration
BlockLines(block) ==
    [i \in 1..Len(block.lead) |-> FourSpaces \o block.lead[i]]
    \o << DeclarationLine(block) >>
    \o [i \in 1..Len(TailOf(block)) |-> FourSpaces \o FourSpaces \o TailOf(block)[i]]

ClassLines(class) ==
    << TxtClass \o <<" ">> \o class.header, <<"{">> >>
    \o Concat([j \in 1..Len(class.members) |-> BlockLines(class.members[j])])
    \o << <<"}">> >>

\* the document's text: the classes one after the other, LF line ends
DocumentText(classes) ==
    LET lines == Concat([k \in 1..Len(classes) |-> ClassLines(classes[k])])
    IN  Concat([i \in 1..Len(lines) |-> lines[i] \o EOL])

RECURSIVE SumOf(_)
SumOf(numbers) ==
    IF numbers = <<>> THEN 0 ELSE Head(numbers) + SumOf(Tail(numbers))

\* vscode.executeDocumentSymbolProvider for the document: one Class symbol
\* per class, spanning its header line to its closing brace, with one
\* child per member spanning its declaration.  A symbol's id stands for
\* the object's identity.
DocumentSymbols(classes) ==
    [k \in 1..Len(classes) |->
        LET class     == classes[k]
            startLine == SumOf([i \in 1..(k - 1) |-> Len(ClassLines(classes[i]))])
            endLine   == startLine + Len(ClassLines(class)) - 1
            MemberLine(j) ==
                startLine + 2
                + SumOf([i \in 1..(j - 1) |-> Len(BlockLines(class.members[i]))])
                + Len(class.members[j].lead)
        IN  [id |-> <<k>>, kind |-> "Class", name |-> class.name,
             range |-> [start |-> [line |-> startLine, character |-> 0],
                        end |-> [line |-> endLine, character |-> 1]],
             children |->
                [j \in 1..Len(class.members) |->
                    [id |-> <<k, j>>,
                     kind |-> class.members[j].kind,
                     name |-> class.members[j].name,
                     range |-> [start |-> [line |-> MemberLine(j),
                                           character |-> Len(FourSpaces)],
                                end |-> [line |-> MemberLine(j)
                                                  + Len(TailOf(class.members[j])),
                                         character |->
                                            Len(BlockLines(class.members[j])[
                                                Len(BlockLines(class.members[j]))])]],
                     children |-> <<>>]]]]

NoRange == [start |-> NoPosition, end |-> NoPosition]

\* undefined, where a symbol is expected
NoSymbol == [id |-> <<>>, kind |-> "None", name |-> <<>>, range |-> NoRange,
             children |-> <<>>]

\* Position.isBeforeOrEqual
PosLE(a, b) == a.line < b.line \/ (a.line = b.line /\ a.character <= b.character)

\* Range.contains(position)
Contains(range, pos) == PosLE(range.start, pos) /\ PosLE(pos, range.end)

\* findEnclosingSymbolByKind: the for loop from index i on
RECURSIVE FindEnclosingFrom(_, _, _, _)
FindEnclosingFrom(symbols, i, pos, kinds) ==
    IF i > Len(symbols) THEN NoSymbol
    ELSE IF ~Contains(symbols[i].range, pos)
    THEN FindEnclosingFrom(symbols, i + 1, pos, kinds)
    ELSE LET child == FindEnclosingFrom(symbols[i].children, 1, pos, kinds)
         IN  IF child.kind # "None" THEN child
             ELSE IF symbols[i].kind \in kinds THEN symbols[i]
             ELSE FindEnclosingFrom(symbols, i + 1, pos, kinds)

\* a search that returns the first containing symbol of a requested kind
\* before it looks at the symbol's children
RECURSIVE FindShallowestFrom(_, _, _, _)
FindShallowestFrom(symbols, i, pos, kinds) ==
    IF i > Len(symbols) THEN NoSymbol
    ELSE IF ~Contains(symbols[i].range, pos)
    THEN FindShallowestFrom(symbols, i + 1, pos, kinds)
    ELSE IF symbols[i].kind \in kinds THEN symbols[i]
    ELSE LET child == FindShallowestFrom(symbols[i].children, 1, pos, kinds)
         IN  IF child.kind # "None" THEN child
             ELSE FindShallowestFrom(symbols, i + 1, pos, kinds)

findShallowestSymbolByKind(symbols, pos, kinds) ==
    FindShallowestFrom(symbols, 1, pos, kinds)

findEnclosingSymbolByKind(symbols, pos, kinds) ==
    FindEnclosingFrom(symbols, 1, pos, kinds)

\* collectSymbolsByKind: the symbols of the kind, in pre-order
RECURSIVE collectSymbolsByKind(_, _)
collectSymbolsByKind(symbols, kind) ==
    IF symbols = <<>> THEN <<>>
    ELSE (IF Head(symbols).kind = kind THEN << Head(symbols) >> ELSE <<>>)
         \o collectSymbolsByKind(Head(symbols).children, kind)
         \o collectSymbolsByKind(Tail(symbols), kind)

\* doc.getText(range)
getText(text, range) ==
    Slice(text, offsetAt(text, range.start), offsetAt(text, range.end))

\* text.trimEnd()
RECURSIVE TrimEnd(_)
TrimEnd(text) ==
    IF text # <<>> /\ text[Len(text)] \in WhiteAtoms
    THEN TrimEnd(SubSeq(text, 1, Len(text) - 1)) ELSE text

\* text.trim()
Trim(text) == TrimEnd(Slice(text, SkipWhite(text, 0), Len(text)))

\* text.split(lit)[0]
BeforeFirst(text, lit) ==
    IF IndexOf(text, lit, 0) = -1 THEN text ELSE Slice(text, 0, IndexOf(text, lit, 0))

\* text.split(/\bword\b/)[0]
BeforeFirstWord(text, word) ==
    LET hits == {p \in 0..(Len(text) - Len(word)) :
                    /\ WordBoundary(text, p)
                    /\ MatchesAt(text, p, word)
                    /\ WordBoundary(text, p + Len(word))}
    IN  IF hits = {} THEN text
        ELSE Slice(text, 0, CHOOSE p \in hits : \A q \in hits : p <= q)

\* sanitizeClassName; <<>> stands for undefined and for the empty string,
\* which the callers treat alike
sanitizeClassName(name) ==
    LET value == IF MatchesAt(name, 0, TxtGlobal)
                 THEN Slice(name, Len(TxtGlobal), Len(name)) ELSE name
        withoutGenerics == Trim(BeforeFirst(value, <<"<">>))
    IN  IF withoutGenerics = <<>> THEN <<>>
        ELSE Slice(withoutGenerics, LastIndexOf(withoutGenerics, <<".">>) + 1,
                   Len(withoutGenerics))

\* detectBaseClassName; <<>> stands for undefined
detectBaseClassName(text, classSymbol) ==
    LET classText  == getText(text, classSymbol.range)
        braceIndex == IndexOf(classText, <<"{">>, 0)
        header     == Slice(classText, 0, braceIndex)
        colonIndex == IndexOf(header, <<":">>, 0)
        afterColon == Slice(header, colonIndex + 1, Len(header))
        withoutConstraints == BeforeFirstWord(afterColon, TxtWhere)
        baseCandidate == Trim(BeforeFirst(withoutConstraints, <<",">>))
    IN  IF braceIndex = -1 THEN <<>>
        ELSE IF colonIndex = -1 THEN <<>>
        ELSE IF Trim(afterColon) = <<>> THEN <<>>
        ELSE IF baseCandidate = <<>> THEN <<>>
        ELSE sanitizeClassName(baseCandidate)

\* findClassSymbolByName: the first class symbol whose normalized name is
\* the name
findClassSymbolByName(symbols, name) ==
    LET candidates == collectSymbolsByKind(symbols, "Class")
        Normalized(symbol) ==
            IF sanitizeClassName(symbol.name) = <<>> THEN symbol.name
            ELSE sanitizeClassName(symbol.name)
        hits == {i \in 1..Len(candidates) : Normalized(candidates[i]) = name}
    IN  IF hits = {} THEN NoSymbol
        ELSE candidates[CHOOSE i \in hits : \A j \in hits : i <= j]

\* classifySymbolKind; "none" stands for undefined
classifySymbolKind(kind) ==
    CASE kind = "Field" -> "field"
      [] kind = "Property" -> "property"
      [] kind = "Method" -> "method"
      [] OTHER -> "none"

\* the while loop of buildMemberRange: the first line of the member
RECURSIVE WalkBack(_, _, _)
WalkBack(text, startLine, classStartLine) ==
    IF startLine <= classStartLine THEN startLine
    ELSE LET trimmed == Trim(lineAt(text, startLine - 1))
         IN  IF trimmed = <<>> THEN startLine
             ELSE IF \/ MatchesAt(trimmed, 0, <<"[">>)
                     \/ MatchesAt(trimmed, 0, <<"/", "/", "/">>)
                     \/ MatchesAt(trimmed, 0, <<"/", "*">>)
                     \/ MatchesAt(trimmed, 0, <<"*">>)
             THEN WalkBack(text, startLine - 1, classStartLine)
             ELSE startLine

\* buildMemberRange: from column 0 of the first line to the end of the
\* symbol's last line, line break included
buildMemberRange(text, symbol, classSymbol) ==
    LET startLine == WalkBack(text, symbol.range.start.line,
                              classSymbol.range.start.line)
        endLine   == symbol.range.end.line
    IN  [start |-> [line |-> startLine, character |-> 0],
         end |-> positionAt(text, Min(LineEnd(text, endLine) + 1, Len(text)))]

\* members.sort((a, b) => a.order - b.order), a stable sort
RECURSIVE SortByOrder(_)
SortByOrder(members) ==
    IF members = <<>> THEN <<>>
    ELSE LET last   == members[Len(members)]
             sorted == SortByOrder(SubSeq(members, 1, Len(members) - 1))
             k      == Cardinality({i \in 1..Len(sorted) : sorted[i].order <= last.order})
         IN  SubSeq(sorted, 1, k) \o << last >> \o SubSeq(sorted, k + 1, Len(sorted))

\* sort by descending start that leaves the members in ascending order
SortByStartAscending(members) == SortByOrder(members)

\* sort((a, b) => offsetAt(b.range.start) - offsetAt(a.range.start)),
\* a stable sort
RECURSIVE SortByStartDescending(_)
SortByStartDescending(members) ==
    IF members = <<>> THEN <<>>
    ELSE LET last   == members[Len(members)]
             sorted == SortByStartDescending(SubSeq(members, 1, Len(members) - 1))
             k      == Cardinality({i \in 1..Len(sorted) : sorted[i].order >= last.order})
         IN  SubSeq(sorted, 1, k) \o << last >> \o SubSeq(sorted, k + 1, Len(sorted))

\* collectMovableMembers for a class symbol of the document
collectMovableMembersOf(text, classSymbol) ==
    LET movable == SelectSeq(classSymbol.children,
                             LAMBDA child : classifySymbolKind(child.kind) # "none")
        Info(child) ==
            LET range == buildMemberRange(text, child, classSymbol)
            IN  [symbol |-> child.id,
                 symbolRange |-> child.range,
                 kind |-> classifySymbolKind(child.kind),
                 name |-> child.name,
                 range |-> range,
                 line |-> range.start.line,
                 character |-> range.start.character,
                 text |-> getText(text, range),
                 order |-> offsetAt(text, range.start)]
    IN  SortByOrder([i \in 1..Len(movable) |-> Info(movable[i])])

NoMember == [symbol |-> <<>>, symbolRange |-> NoRange, kind |-> "none",
             name |-> <<>>, range |-> NoRange, line |-> 0, character |-> 0,
             text |-> <<>>, order |-> 0]

\* undefined, where a MoveToBaseContext is expected
NoContext == [defined |-> FALSE, member |-> NoMember, classSymbol |-> NoSymbol,
              baseClassSymbol |-> NoSymbol, baseClassName |-> <<>>,
              allMembers |-> <<>>]

\* the member of allMembers for the member symbol: by identity, else by
\* equal ranges
FindMember(allMembers, memberSymbol) ==
    LET same  == {i \in 1..Len(allMembers) : allMembers[i].symbol = memberSymbol.id}
        equal == {i \in 1..Len(allMembers) :
                    allMembers[i].symbolRange = memberSymbol.range}
    IN  IF same # {} THEN allMembers[CHOOSE i \in same : \A j \in same : i <= j]
        ELSE IF equal # {}
        THEN allMembers[CHOOSE i \in equal : \A j \in equal : i <= j]
        ELSE NoMember

detectMoveToBaseContext(text, pos, tree) ==
    LET memberSymbol == findEnclosingSymbolByKind(tree, pos,
                            {"Field", "Property", "Method"})
        interfaceAncestor == findEnclosingSymbolByKind(tree,
                                 memberSymbol.range.start, {"Interface"})
        classSymbol == findEnclosingSymbolByKind(tree, memberSymbol.range.start,
                                                 {"Class"})
        baseClassName == detectBaseClassName(text, classSymbol)
        baseClassSymbol == findClassSymbolByName(tree, baseClassName)
        allMembers == collectMovableMembersOf(text, classSymbol)
        member == FindMember(allMembers, memberSymbol)
    IN  IF tree = <<>> THEN NoContext
        ELSE IF memberSymbol.kind = "None" THEN NoContext
        ELSE IF interfaceAncestor.kind # "None" THEN NoContext
        ELSE IF classSymbol.kind = "None" THEN NoContext
        ELSE IF baseClassName = <<>> THEN NoContext
        ELSE IF baseClassSymbol.kind = "None" \/ baseClassSymbol.id = classSymbol.id
        THEN NoContext
        ELSE IF allMembers = <<>> THEN NoContext
        ELSE IF member.kind = "none" THEN NoContext
        ELSE [defined |-> TRUE, member |-> member, classSymbol |-> classSymbol,
              baseClassSymbol |-> baseClassSymbol, baseClassName |-> baseClassName,
              allMembers |-> allMembers]
\* findClassInsertionPosition: the position of the class's last `}`
\* (a class symbol's text always has one here)
findClassInsertionPosition(text, classSymbol) ==
    LET classText    == getText(text, classSymbol.range)
        closingIndex == LastIndexOf(classText, <<"}">>)
    IN  [defined |-> closingIndex # -1,
         position |-> IF closingIndex = -1 THEN NoPosition
                      ELSE positionAt(text, offsetAt(text, classSymbol.range.start)
                                            + closingIndex)]

\* the offset of the end of the line that offset p is on
EndOfLineFrom(text, p) ==
    IF IndexOf(text, EOL, p) = -1 THEN Len(text) ELSE IndexOf(text, EOL, p)

\* One more iteration of the prefix group of promotePrivateToProtected,
\* (?:\[[^\]]*\]|\/\/\/.*)\s*, started at offset q: the offsets it can
\* end at.  An attribute runs to the first `]`; a /// comment runs to any
\* offset up to the end of its line; the \s* after either takes all the
\* white space there is (what follows must be `[`, `///` or `private`).
PrefixSteps(text, q) ==
    (IF MatchesAt(text, q, <<"[">>) /\ IndexOf(text, <<"]">>, q + 1) # -1
     THEN {SkipWhite(text, IndexOf(text, <<"]">>, q + 1) + 1)} ELSE {})
    \cup
    (IF MatchesAt(text, q, <<"/", "/", "/">>)
     THEN {SkipWhite(text, e) : e \in (q + 3)..EndOfLineFrom(text, q + 3)}
     ELSE {})

\* the offsets at which group 1 of the regular expression can end
RECURSIVE PrefixEndsFrom(_, _)
PrefixEndsFrom(text, ends) ==
    LET more == ends \cup UNION {PrefixSteps(text, q) : q \in ends}
    IN  IF more = ends THEN ends ELSE PrefixEndsFrom(text, more)

\* promotePrivateToProtected: the `private` followed by white space at
\* the end of a prefix is replaced.  All quantifiers are greedy, so of the
\* possible matches the one with the longest prefix is taken.
promotePrivateToProtected(text) ==
    LET ends == PrefixEndsFrom(text, {SkipWhite(text, 0)})
        hits == {q \in ends :
                    /\ MatchesAt(text, q, TxtPrivate)
                    /\ q + Len(TxtPrivate) < Len(text)
                    /\ text[q + Len(TxtPrivate) + 1] \in WhiteAtoms}
    IN  IF hits = {} THEN text
        ELSE LET q == CHOOSE x \in hits : \A y \in hits : x >= y
             IN  ReplaceText(text, q, q + Len(TxtPrivate), TxtProtected)

\* text.split(/\r?\n/)
RECURSIVE SplitLines(_)
SplitLines(text) ==
    LET at == IndexOf(text, <<"\n">>, 0)
        end == IF at > 0 /\ text[at] = "\r" THEN at - 1 ELSE at
    IN  IF at = -1 THEN << text >>
        ELSE << Slice(text, 0, end) >> \o SplitLines(Slice(text, at + 1, Len(text)))

\* texts.join(separator)
RECURSIVE JoinWith(_, _)
JoinWith(texts, separator) ==
    IF texts = <<>> THEN <<>>
    ELSE IF Len(texts) = 1 THEN texts[1]
    ELSE texts[1] \o separator \o JoinWith(Tail(texts), separator)

prepareMemberTextForInsertion(text, eol) ==
    JoinWith(SplitLines(promotePrivateToProtected(TrimEnd(text))), eol)

\* undefined, where a WorkspaceEdit is expected
NoMoveEdit == [defined |-> FALSE, position |-> NoPosition, text |-> <<>>,
               deletions |-> <<>>]

\* buildMoveMemberWorkspaceEdit: one insertion and the deletions, in the
\* order they are added to the edit
buildMoveMemberWorkspaceEdit(text, context) ==
    LET membersToMove == collectMembersWithDependencies(context.member,
                                                        context.allMembers)
        insertionPosition == findClassInsertionPosition(text, context.baseClassSymbol)
        orderedMembers == SortByOrder(membersToMove)
        preparedTexts == [i \in 1..Len(orderedMembers) |->
                            prepareMemberTextForInsertion(orderedMembers[i].text, EOL)]
        joined == TrimEnd(JoinWith(preparedTexts, EOL \o EOL))
        deletionOrder == SortByStartDescending(orderedMembers)
    IN  IF membersToMove = <<>> THEN NoMoveEdit
        ELSE IF ~insertionPosition.defined THEN NoMoveEdit
        ELSE IF joined = <<>> THEN NoMoveEdit
        ELSE [defined |-> TRUE,
              position |-> insertionPosition.position,
              text |-> EOL \o joined \o EOL,
              deletions |-> [i \in 1..Len(deletionOrder) |-> deletionOrder[i].range]]

\* no code action has been requested yet
NoCaret == [line |-> -1, character |-> 0]

\* the documents: a source class with up to MaxMembers members, and class
\* B before it, after it or not in the document
MvInit ==
    /\ \E header \in SourceHeaders,
          members \in DistinctSeqs(MemberBlocks, 0, MaxMembers) :
        \E placement \in header.placements :
        LET source == [name |-> header.name, header |-> header.header,
                       base |-> header.base, members |-> members]
        IN  /\ mvClasses = CASE placement = "before" -> << BaseClass, source >>
                             [] placement = "after" -> << source, BaseClass >>
                             [] OTHER -> << source >>
            /\ mvText = DocumentText(mvClasses)
    /\ mvPos = NoCaret
    /\ mvContext = NoContext
    /\ mvEdit = NoMoveEdit

\* provideCodeActions, the move branch, for the caret on some line of the
\* document (inside the indentation's end column)
MvProvideCodeActions ==
    /\ \E line \in 0..(lineCount(mvText) - 1) :
        /\ mvPos' = [line |-> line, character |-> Len(FourSpaces)]
        /\ \E context \in {detectMoveToBaseContext(mvText, mvPos',
                                                   DocumentSymbols(mvClasses))} :
            /\ mvContext' = context
            /\ mvEdit' = IF context.defined
                         THEN buildMoveMemberWorkspaceEdit(mvText, context)
                         ELSE NoMoveEdit
    /\ UNCHANGED <<mvClasses, mvText>>

InitMove == MvInit /\ IdleExcept("move")
NextMove == MvProvideCodeActions /\ UnchangedExcept("move")
SpecMove == InitMove /\ [][NextMove]_vars
\* the source class as declared: the class whose lines the caret is in
SourceClassIndex ==
    CHOOSE k \in 1..Len(mvClasses) : mvClasses[k].name # BaseClass.name

\* the declaration block of a moved member
BlockOf(member) == mvClasses[member.symbol[1]].members[member.symbol[2]]

\* the text the move must insert for a declaration block: its lines with
\* a leading `private` accessibility replaced by `protected`
ExpectedMemberText(block) ==
    IF block.accessibility = TxtPrivate
    THEN JoinWith(BlockLines([block EXCEPT !.accessibility = TxtProtected]), EOL)
    ELSE JoinWith(BlockLines(block), EOL)

\* the members the offered edit moves, in source order
MovedMembers ==
    SortByOrder(collectMembersWithDependencies(mvContext.member,
                                               mvContext.allMembers))

\* C6: the text inserted into the base class is the moved members' texts
\* in source order, separated by a blank line, where a member declared
\* `private` is declared `protected` and every other character of every
\* member is unchanged.
C6_OnlyLeadingPrivatePromoted ==
    (mvPos # <<>> /\ mvPos # NoCaret /\ mvEdit.defined)
        => mvEdit.text =
            EOL \o JoinWith([i \in 1..Len(MovedMembers) |->
                                ExpectedMemberText(BlockOf(MovedMembers[i]))],
                            EOL \o EOL) \o EOL

\* the class symbols of the document
ClassSymbols == collectSymbolsByKind(DocumentSymbols(mvClasses), "Class")

\* C7: no context is returned when the source class declares no base
\* class, declares one that is no class of the document, or has no field,
\* property or method; a returned context's baseClassSymbol is a class
\* symbol of the document other than classSymbol.
C7_ContextOnlyForResolvedBase ==
    (mvPos # <<>> /\ mvPos # NoCaret)
        => LET source == mvClasses[SourceClassIndex]
               unresolved ==
                   \/ source.base = <<>>
                   \/ \A i \in 1..Len(ClassSymbols) :
                        sanitizeClassName(ClassSymbols[i].name) # source.base
               noMovable ==
                   \A j \in 1..Len(source.members) :
                        classifySymbolKind(source.members[j].kind) = "none"
           IN  /\ (unresolved \/ noMovable) => ~mvContext.defined
               /\ mvContext.defined =>
                    /\ \E i \in 1..Len(ClassSymbols) :
                            ClassSymbols[i] = mvContext.baseClassSymbol
                    /\ mvContext.baseClassSymbol.id # mvContext.classSymbol.id

----------------------------------------------------------------------------
(* buildArgumentList: the arguments of the base(...) call of a generated   *)
(* constructor, from the base constructor's parameter-list text.  Texts    *)
(* here are sequences of tokens' pieces: an identifier, keyword, number or *)
(* string literal is one element, every other character is one element.   *)

\* the most parameters of a constructor
MaxParams == 2

\* the parameters a base constructor may declare:
\*     int a          ref string b     out int c      in T d
\*     int f = 5      string g = "x"   params int[] i
\*     Dictionary<string, int> h
Parameters ==
    { [modifier |-> <<>>, type |-> <<"int">>, name |-> <<"a">>, default |-> <<>>],
      [modifier |-> <<"ref">>, type |-> <<"string">>, name |-> <<"b">>,
       default |-> <<>>],
      [modifier |-> <<"out">>, type |-> <<"int">>, name |-> <<"c">>,
       default |-> <<>>],
      [modifier |-> <<"in">>, type |-> <<"T">>, name |-> <<"d">>, default |-> <<>>],
      [modifier |-> <<>>, type |-> <<"int">>, name |-> <<"f">>,
       default |-> <<"5">>],
      [modifier |-> <<>>, type |-> <<"string">>, name |-> <<"g">>,
       default |-> <<"\"x\"">>],
      [modifier |-> <<>>, type |-> <<"params", " ", "int", "[", "]">>,
       name |-> <<"i">>, default |-> <<>>],
      [modifier |-> <<>>,
       type |-> <<"Dictionary", "<", "string", ",", " ", "int", ">">>,
       name |-> <<"h">>, default |-> <<>>] }

ParameterText(parameter) ==
    (IF parameter.modifier = <<>> THEN <<>> ELSE parameter.modifier \o <<" ">>)
    \o parameter.type \o <<" ">> \o parameter.name
    \o (IF parameter.default = <<>> THEN <<>>
        ELSE <<" ", "=", " ">> \o parameter.default)

ParameterListText(parameters) ==
    JoinWith([i \in 1..Len(parameters) |-> ParameterText(parameters[i])],
             <<",", " ">>)

\* text.split(separator) for a one-element separator
RECURSIVE SplitBy(_, _)
SplitBy(text, separator) ==
    LET at == IndexOf(text, <<separator>>, 0)
    IN  IF at = -1 THEN << text >>
        ELSE << Slice(text, 0, at) >>
             \o SplitBy(Slice(text, at + 1, Len(text)), separator)

\* text.split(/\s+/) for a trimmed, non-empty text
RECURSIVE SplitWhite(_)
SplitWhite(text) ==
    LET white == {p \in 0..(Len(text) - 1) : text[p + 1] \in WhiteAtoms}
        end   == IF white = {} THEN Len(text)
                 ELSE CHOOSE p \in white : \A q \in white : p <= q
    IN  IF white = {} THEN << text >>
        ELSE << Slice(text, 0, end) >>
             \o SplitWhite(Slice(text, SkipWhite(text, end), Len(text)))

ArgumentModifiers == { <<"ref">>, <<"out">>, <<"in">>, <<"this">> }

\* the body of the for loop of buildArgumentList: the argument pushed for
\* one part, <<>> when the part is skipped
ArgumentOf(part) ==
    LET beforeEquals == Trim(SplitBy(part, "=")[1])
        tokens    == SplitWhite(beforeEquals)
        name      == tokens[Len(tokens)]
        modifiers == SelectSeq(tokens, LAMBDA t : t \in ArgumentModifiers)
    IN  IF beforeEquals = <<>> THEN <<>>
        ELSE (IF modifiers # <<>> THEN JoinWith(modifiers, <<" ">>) \o <<" ">>
              ELSE <<>>) \o name

buildArgumentList(parameterList) ==
    IF Trim(parameterList) = <<>> THEN <<>>
    ELSE LET parts == SplitBy(parameterList, ",")
             args  == SelectSeq([i \in 1..Len(parts) |-> ArgumentOf(parts[i])],
                                LAMBDA arg : arg # <<>>)
         IN  JoinWith(args, <<",", " ">>)

ArInit ==
    /\ arParams \in DistinctSeqs(Parameters, 0, MaxParams)
    /\ arList = ParameterListText(arParams)
    /\ arArgs = <<"none">>

\* detectConstructors calls buildArgumentList for a constructor's
\* parameter list
ArBuild ==
    /\ arArgs = <<"none">>
    /\ arArgs' = buildArgumentList(arList)
    /\ UNCHANGED <<arParams, arList>>

InitArgs == ArInit /\ IdleExcept("arguments")
NextArgs == ArBuild /\ UnchangedExcept("arguments")
SpecArgs == InitArgs /\ [][NextArgs]_vars

\* the argument that forwards a parameter: its name, after its modifier
ExpectedArgument(parameter) ==
    (IF parameter.modifier = <<>> THEN <<>> ELSE parameter.modifier \o <<" ">>)
    \o parameter.name

\* C8: for a non-empty parameter list the result has one argument per
\* parameter, in the list's order: the parameter's name, preceded by its
\* ref/out/in/this modifier if it has one, and nothing else (no type, no
\* default value).
C8_OneArgumentPerParameter ==
    (arArgs # <<>> /\ arArgs # <<"none">> /\ arParams # <<>>)
        => arArgs = JoinWith([i \in 1..Len(arParams) |->
                                ExpectedArgument(arParams[i])], <<",", " ">>)

----------------------------------------------------------------------------
(* Create derived class: createDerivedClass with detectConstructors,       *)
(* extractClassBody, detectAbstractMethodsInClass,                         *)
(* detectAbstractPropertiesInClass, buildDerivedClassText and              *)
(* generateClassBody.  The document is a text of atoms.                    *)

\* the most members the base class declares
MaxDeclared == 2

NameBase    == "Base"
NameDerived == "Derived"

\* indentUnit of createDerivedClass
IndentUnit == <<" ", " ", " ", " ">>

TodoMarker == <<"//", " ", "TODO", ":", " ", "implement">>

Method(accessibility, type, name, generics, parameters, constraints) ==
    [kind |-> "method", accessibility |-> accessibility, type |-> type,
     name |-> name, generics |-> generics, parameters |-> parameters,
     constraints |-> constraints, accessors |-> <<>>]

Property(accessibility, type, name, accessors) ==
    [kind |-> "property", accessibility |-> accessibility, type |-> type,
     name |-> name, generics |-> <<>>, parameters |-> <<>>,
     constraints |-> <<>>, accessors |-> accessors]

Constructor(accessibility, parameters) ==
    [kind |-> "constructor", accessibility |-> accessibility, type |-> <<>>,
     name |-> <<NameBase>>, generics |-> <<>>, parameters |-> parameters,
     constraints |-> <<>>, accessors |-> <<>>]

\* Members a C# abstract class declares: abstract methods (plain, generic
\* with a constraint clause, with the compound accessibility
\* "protected internal", with a generic return type), abstract properties
\* (get, get/set, get/init, and one whose accessor block is empty), and a
\* constructor with parameters.
DeclaredMembers ==
    { Method(<<"public">>, <<"void">>, <<"Run">>, <<>>, <<>>, <<>>),
      Method(<<"protected">>, <<"T">>, <<"Get">>, <<"<", "T", ">">>, <<"T", " ", "x">>, <<"where", " ", "T", " ", ":", " ", "class">>),
      Method(<<"protected", " ", "internal">>, <<"int">>, <<"Size">>, <<>>, <<>>, <<>>),
      Method(<<"public">>, <<"Dictionary", "<", "string", ",", " ", "int", ">">>, <<"Map">>, <<>>, <<"int", " ", "a", ",", " ", "int", " ", "b">>, <<>>),
      Property(<<"public">>, <<"int">>, <<"X">>, <<"get">>),
      Property(<<"public">>, <<"string">>, <<"Name">>, <<"get", "set">>),
      Property(<<"protected">>, <<"int">>, <<"Y">>, <<"get", "init">>),
      Property(<<"public">>, <<"int">>, <<"Z">>, <<>>),
      Constructor(<<"protected">>, <<"int", " ", "a", ",", " ", "ref", " ", "string", " ", "b">>) }

\* a member's declaration as written in the base class
DeclarationText(member) ==
    IF member.kind = "method"
    THEN member.accessibility \o <<" ", "abstract", " ">> \o member.type \o <<" ">>
         \o member.name \o member.generics \o <<"(">> \o member.parameters \o <<")">>
         \o (IF member.constraints = <<>> THEN <<>>
             ELSE <<" ">> \o member.constraints)
         \o <<";">>
    ELSE IF member.kind = "property"
    THEN member.accessibility \o <<" ", "abstract", " ">> \o member.type \o <<" ">>
         \o member.name \o <<" ", "{">>
         \o Concat([i \in 1..Len(member.accessors) |->
                        <<" ", member.accessors[i], ";">>])
         \o <<" ", "}">>
    ELSE member.accessibility \o <<" ">> \o member.name
         \o <<"(">> \o member.parameters \o <<")">> \o <<" ", "{", " ", "}">>

\* <T, ...> after a generic class's name; empty for a class that is not
\* generic
GenericSuffix(typeParameters) ==
    IF typeParameters = <<>> THEN <<>>
    ELSE <<"<">> \o JoinWith([i \in 1..Len(typeParameters) |-> <<typeParameters[i]>>],
                         <<",", " ">>) \o <<">">>

\* the document: the base class alone, at the top level
BaseClassText(members, typeParameters) ==
    <<"public", " ", "abstract", " ", "class", " ">> \o <<NameBase>> \o GenericSuffix(typeParameters)
    \o EOL \o <<"{">> \o EOL
    \o Concat([i \in 1..Len(members) |->
                   IndentUnit \o DeclarationText(members[i]) \o EOL])
    \o <<"}">> \o EOL

\* no match of a regular expression (RegExp.exec returned null)
NoMatch == [end |-> -1]

AccessibilityWords == {"public", "protected", "internal", "private"}

\* [\w<>,\.\s]
IsTypeAtom(a) == IsWordAtom(a) \/ a \in {"<", ">", ",", ".", " ", "\n"}

\* extractClassBody: the text between the braces of the first
\* `class baseName ... {`; <<"none">> stands for undefined
RECURSIVE BodyScan(_, _, _)
BodyScan(text, i, depth) ==
    IF i < Len(text) /\ depth > 0
    THEN BodyScan(text, i + 1,
                  IF text[i + 1] = "{" THEN depth + 1
                  ELSE IF text[i + 1] = "}" THEN depth - 1 ELSE depth)
    ELSE [i |-> i, depth |-> depth]

extractClassBody(text, baseName) ==
    LET HeaderAt(p) ==
            LET q == SkipWhite(text, p + 1)
            IN  /\ text[p + 1] = "class"
                /\ WordBoundary(text, p)
                /\ q > p + 1
                /\ q < Len(text)
                /\ text[q + 1] = baseName
                /\ IndexOf(text, <<"{">>, q + 1) # -1
        headers == {p \in 0..(Len(text) - 1) : HeaderAt(p)}
        first   == CHOOSE p \in headers : \A q \in headers : p <= q
        startIndex == IndexOf(text, <<"{">>, SkipWhite(text, first + 1) + 1) + 1
        scan    == BodyScan(text, startIndex, 1)
    IN  IF headers = {} THEN <<"none">>
        ELSE IF scan.depth # 0 THEN <<"none">>
        ELSE Slice(text, startIndex, scan.i - 1)

\* \b(public|protected|internal|private)\s+abstract\s+ at offset p: the
\* offset after it, -1 when it does not match
AbstractHead(body, p) ==
    LET q1 == SkipWhite(body, p + 1)
        q2 == SkipWhite(body, q1 + 1)
    IN  IF /\ p < Len(body)
           /\ body[p + 1] \in AccessibilityWords
           /\ WordBoundary(body, p)
           /\ q1 > p + 1
           /\ q1 < Len(body)
           /\ body[q1 + 1] = "abstract"
           /\ q2 > q1 + 1
        THEN q2 ELSE -1

\* ([A-Za-z_][\w<>,\.\s]*)\s+([A-Za-z_]\w*) from offset q, the name being
\* the atom at offset n
TypeThenName(body, q, n) ==
    /\ n >= q + 2
    /\ n < Len(body)
    /\ IsWordAtom(body[q + 1])
    /\ \A k \in (q + 1)..n : IsTypeAtom(body[k])
    /\ body[n] \in WhiteAtoms
    /\ IsWordAtom(body[n + 1])

\* (<([^>]*)>)? at offset r: the offset after it
GenericsEnd(body, r) ==
    IF r < Len(body) /\ body[r + 1] = "<" /\ IndexOf(body, <<">">>, r + 1) # -1
    THEN IndexOf(body, <<">">>, r + 1) + 1 ELSE r

\* \(([^)]*)\) at offset r: the offset of its closing parenthesis, -1 when
\* it does not match
ParametersEnd(body, r) ==
    IF r < Len(body) /\ body[r + 1] = "("
    THEN IndexOf(body, <<")">>, r + 1) ELSE -1

\* (where[^;]+)?; at offset s: the offset of its semicolon, -1 when it does
\* not match
DeclarationEnd(body, s) ==
    IF s < Len(body) /\ body[s + 1] = "where" /\ IndexOf(body, <<";">>, s) > s + 1
    THEN IndexOf(body, <<";">>, s)
    ELSE IF s < Len(body) /\ body[s + 1] = ";" THEN s
    ELSE -1

\* the groups of a match of the method pattern's tail: the type parameter
\* list is body[r..ge), the parameter list body(open..close), the where
\* clause body[s..semi)
MethodGroups(body, r, ge, open, close, s, semi) ==
    IF close = -1 \/ semi = -1 THEN NoMatch
    ELSE [end |-> semi + 1,
          generics |-> Slice(body, r, ge),
          typeParamsRaw |-> IF ge = r THEN <<>> ELSE Slice(body, r + 1, ge - 1),
          parameters |-> Slice(body, open + 1, close),
          constraints |-> Slice(body, s, semi)]

\* \s*(<([^>]*)>)?\s*\(([^)]*)\)\s*(where[^;]+)?; after the name at offset n
MethodTail(body, n) ==
    LET r     == SkipWhite(body, n + 1)
        ge    == GenericsEnd(body, r)
        open  == SkipWhite(body, ge)
        close == ParametersEnd(body, open)
        s     == SkipWhite(body, close + 1)
        semi  == DeclarationEnd(body, s)
    IN  MethodGroups(body, r, ge, open, close, s, semi)

\* the leading identifiers of the parts of typeParamsRaw.split(",")
TypeParameterNames(typeParamsRaw) ==
    IF Trim(typeParamsRaw) = <<>> THEN <<>>
    ELSE LET parts == SplitBy(Trim(typeParamsRaw), ",")
             named == SelectSeq([i \in 1..Len(parts) |-> Trim(parts[i])],
                                LAMBDA part : part # <<>> /\ IsWordAtom(part[1]))
         IN  [i \in 1..Len(named) |-> named[i][1]]

\* the offset of the name the pattern settles on: the type is matched
\* greedily, so it is the last one of the offsets tails, those after which
\* the pattern's tail matches; -1 when there is none
NameOffset(body, q, tails) ==
    IF q = -1 THEN -1
    ELSE LET names == {n \in (q + 2)..(Len(body) - 1) :
                          TypeThenName(body, q, n) /\ n \in tails}
         IN  IF names = {} THEN -1
             ELSE CHOOSE x \in names : \A y \in names : x >= y

\* the AbstractMethodInfo of a match at offset p whose type starts at
\* offset q and whose name is at offset n
MethodInfoOf(body, p, q, n, tail) ==
    [accessibility |-> <<body[p + 1]>>,
     returnType |-> Trim(Slice(body, q, n - 1)),
     name |-> <<body[n + 1]>>,
     fullTypeParameterText |-> Trim(tail.generics),
     typeParameters |-> TypeParameterNames(tail.typeParamsRaw),
     parameters |-> Trim(tail.parameters),
     constraints |-> Trim(tail.constraints)]

\* methodRegex at offset p: the match's end and the AbstractMethodInfo
MethodMatchAt(body, p) ==
    CHOOSE match \in
        {IF n = -1 THEN NoMatch
         ELSE [end  |-> MethodTail(body, n).end,
               info |-> MethodInfoOf(body, p, AbstractHead(body, p), n,
                                     MethodTail(body, n))] :
             n \in {NameOffset(body, AbstractHead(body, p),
                                {t \in 0..(Len(body) - 1) :
                                     MethodTail(body, t).end # -1})}} : TRUE

\* the loop over methodRegex.exec(body)
RECURSIVE MethodsFrom(_, _)
MethodsFrom(body, from) ==
    LET starts == {p \in from..(Len(body) - 1) : MethodMatchAt(body, p).end # -1}
        first  == CHOOSE p \in starts : \A q \in starts : p <= q
    IN  IF starts = {} THEN <<>>
        ELSE CHOOSE methods \in
                 {<< match.info >> \o MethodsFrom(body, match.end) :
                      match \in {MethodMatchAt(body, first)}} : TRUE

detectAbstractMethodsInClass(text, baseName) ==
    LET body == extractClassBody(text, baseName)
    IN  IF body = <<"none">> \/ body = <<>> THEN <<>> ELSE MethodsFrom(body, 0)

\* /word\s*;/.test(block)
HasAccessor(block, word) ==
    \E p \in 0..(Len(block) - 1) :
        /\ block[p + 1] = word
        /\ SkipWhite(block, p + 1) < Len(block)
        /\ block[SkipWhite(block, p + 1) + 1] = ";"

\* \s*\{([^}]*)\} after the name at offset n
PropertyTail(body, n) ==
    LET r     == SkipWhite(body, n + 1)
        close == IF r < Len(body) /\ body[r + 1] = "{"
                 THEN IndexOf(body, <<"}">>, r + 1) ELSE -1
    IN  IF close = -1 THEN NoMatch
        ELSE [end |-> close + 1, accessorsBlock |-> Slice(body, r + 1, close)]

\* the AbstractPropertyInfo of a match at offset p whose type starts at
\* offset q and whose name is at offset n
PropertyInfoOf(body, p, q, n, accessorsBlock) ==
    [accessibility |-> <<body[p + 1]>>,
     type |-> Trim(Slice(body, q, n - 1)),
     name |-> <<body[n + 1]>>,
     hasGetter |-> HasAccessor(accessorsBlock, "get"),
     hasSetter |-> HasAccessor(accessorsBlock, "set"),
     hasInit   |-> HasAccessor(accessorsBlock, "init")]

\* propRegex at offset p: the match's end and the AbstractPropertyInfo
PropertyMatchAt(body, p) ==
    CHOOSE match \in
        {IF n = -1 THEN NoMatch
         ELSE [end  |-> PropertyTail(body, n).end,
               info |-> PropertyInfoOf(body, p, AbstractHead(body, p), n,
                                       PropertyTail(body, n).accessorsBlock)] :
             n \in {NameOffset(body, AbstractHead(body, p),
                                {t \in 0..(Len(body) - 1) :
                                     PropertyTail(body, t).end # -1})}} : TRUE

\* the loop over propRegex.exec(body): every match is pushed
RECURSIVE PropertiesFrom(_, _)
PropertiesFrom(body, from) ==
    LET starts == {p \in from..(Len(body) - 1) : PropertyMatchAt(body, p).end # -1}
        first  == CHOOSE p \in starts : \A q \in starts : p <= q
    IN  IF starts = {} THEN <<>>
        ELSE CHOOSE props \in
                 {<< match.info >> \o PropertiesFrom(body, match.end) :
                      match \in {PropertyMatchAt(body, first)}} : TRUE

detectAbstractPropertiesInClass(text, baseName) ==
    LET body == extractClassBody(text, baseName)
    IN  IF body = <<"none">> \/ body = <<>> THEN <<>> ELSE PropertiesFrom(body, 0)

\* (?:unsafe\s+)? at offset q: the offset after it
UnsafeEnd(text, q) ==
    IF q < Len(text) /\ text[q + 1] = "unsafe" /\ SkipWhite(text, q + 1) > q + 1
    THEN SkipWhite(text, q + 1) ELSE q

\* baseName\s*\(([^)]*)\) at offset u, after the accessibility given
ConstructorGroups(text, baseName, u, accessibility) ==
    IF u < Len(text) /\ text[u + 1] = baseName
       /\ ParametersEnd(text, SkipWhite(text, u + 1)) # -1
    THEN [end |-> ParametersEnd(text, SkipWhite(text, u + 1)) + 1,
          accessibility |-> accessibility,
          parameters |-> Trim(Slice(text, SkipWhite(text, u + 1) + 1,
                                    ParametersEnd(text, SkipWhite(text, u + 1))))]
    ELSE NoMatch

\* \s*(?:unsafe\s+)?baseName\s*\(([^)]*)\) from offset from
ConstructorTail(text, baseName, from, accessibility) ==
    ConstructorGroups(text, baseName, UnsafeEnd(text, SkipWhite(text, from)),
                      accessibility)

\* ctorRegex at offset p:
\* \b(public|protected|internal|private)?\s*(?:unsafe\s+)?baseName\s*\(([^)]*)\)
\* accessibility <<>> stands for undefined
ConstructorMatchAt(text, baseName, p) ==
    IF ~WordBoundary(text, p) THEN NoMatch
    ELSE IF /\ p < Len(text)
            /\ text[p + 1] \in AccessibilityWords
            /\ ConstructorTail(text, baseName, p + 1, <<text[p + 1]>>).end # -1
    THEN ConstructorTail(text, baseName, p + 1, <<text[p + 1]>>)
    ELSE ConstructorTail(text, baseName, p, <<>>)

\* the loop over ctorRegex.exec(text): a match without parameters is skipped
RECURSIVE ConstructorsFrom(_, _, _)
ConstructorsFrom(text, baseName, from) ==
    LET starts == {p \in from..Len(text) : ConstructorMatchAt(text, baseName, p).end # -1}
        first  == CHOOSE p \in starts : \A q \in starts : p <= q
    IN  IF starts = {} THEN <<>>
        ELSE CHOOSE ctors \in
                 {(IF match.parameters = <<>> THEN <<>>
                   ELSE << [accessibility |-> match.accessibility,
                            parameters    |-> match.parameters,
                            argumentList  |-> buildArgumentList(match.parameters)] >>)
                  \o ConstructorsFrom(text, baseName, match.end) :
                      match \in {ConstructorMatchAt(text, baseName, first)}} : TRUE

detectConstructors(text, baseName) == ConstructorsFrom(text, baseName, 0)

generateClassBody(indentUnit, baseIndent, newName, constructors, abstractMethods, abstractProperties, nl) ==
    LET classIndent == baseIndent \o indentUnit
        innerIndent == classIndent \o indentUnit
        ConstructorText(ctor) ==
            classIndent
            \o (IF ctor.accessibility = <<>> THEN <<"public">> ELSE ctor.accessibility)
            \o <<" ">> \o <<newName>> \o <<"(">> \o ctor.parameters \o <<")", " ", ":", " ", "base", "(">>
            \o ctor.argumentList \o <<")">> \o nl
            \o classIndent \o <<"{">> \o nl
            \o classIndent \o <<"}">> \o nl \o nl
        MethodText(method) ==
            classIndent \o method.accessibility \o <<" ", "override", " ">>
            \o method.returnType \o <<" ">> \o method.name
            \o method.fullTypeParameterText \o <<"(">> \o method.parameters \o <<")">>
            \o (IF method.constraints # <<>> THEN <<" ">> \o method.constraints
                ELSE <<>>)
            \o nl
            \o classIndent \o <<"{">> \o nl
            \o innerIndent \o <<"throw", " ", "new", " ", "System", ".", "NotImplementedException", "(", ")", ";">> \o nl
            \o classIndent \o <<"}">> \o nl \o nl
        PropertyText(prop) ==
            classIndent \o prop.accessibility \o <<" ", "override", " ">> \o prop.type
            \o <<" ">> \o prop.name \o <<" ", "{">>
            \o (IF prop.hasGetter THEN <<" ", "get", ";">> ELSE <<>>)
            \o (IF prop.hasSetter THEN <<" ", "set", ";">> ELSE <<>>)
            \o (IF prop.hasInit THEN <<" ", "init", ";">> ELSE <<>>)
            \o <<" ", "}">> \o nl
    IN  classIndent \o TodoMarker \o nl
        \o (IF constructors # <<>>
            THEN nl \o Concat([i \in 1..Len(constructors) |->
                                   ConstructorText(constructors[i])])
            ELSE <<>>)
        \o (IF abstractMethods # <<>>
            THEN (IF constructors = <<>> THEN nl ELSE <<>>)
                 \o Concat([i \in 1..Len(abstractMethods) |->
                                MethodText(abstractMethods[i])])
            ELSE <<>>)
        \o (IF abstractProperties # <<>>
            THEN (IF constructors = <<>> /\ abstractMethods = <<>> THEN nl ELSE <<>>)
                 \o Concat([i \in 1..Len(abstractProperties) |->
                                PropertyText(abstractProperties[i])])
            ELSE <<>>)

buildDerivedClassText(baseIndent, indentUnit, baseName, newName, baseGenericSuffix, constructors, abstractMethods, abstractProperties, nl) ==
    baseIndent \o <<"public", " ", "class", " ">> \o <<newName>> \o <<" ", ":", " ">> \o <<baseName>>
    \o baseGenericSuffix \o nl
    \o baseIndent \o <<"{">> \o nl
    \o generateClassBody(indentUnit, baseIndent, newName, constructors,
                         abstractMethods, abstractProperties, nl)
    \o baseIndent \o <<"}">> \o nl

\* the offset of the line end at or after offset p (doc.lineAt(..).range.end)
LineEndFrom(text, p) ==
    IF IndexOf(text, EOL, p) = -1 THEN Len(text) ELSE IndexOf(text, EOL, p)

\* the offset of the line start at or before offset p
LineStartBefore(text, p) ==
    LET breaks == {b \in 0..(p - 1) : text[b + 1] = "\n"}
    IN  IF breaks = {} THEN 0
        ELSE (CHOOSE b \in breaks : \A c \in breaks : b >= c) + 1

\* the base class's symbol as the C# symbol provider reports it: its
\* declaration starts at selectionStart and it ends after its closing brace;
\* NoClassSymbol when the text has no such class
NoClassSymbol == [selectionStart |-> -1, end |-> -1]

BaseClassSymbol(text, baseName) ==
    LET at    == IndexOf(text, <<"class", " ", baseName>>, 0)
        open  == IndexOf(text, <<"{">>, at)
        close == findMatchingBrace(text, open)
    IN  IF at = -1 \/ open = -1 \/ close = -1 THEN NoClassSymbol
        ELSE [selectionStart |-> at + 2, end |-> close + 1]

\* findTodoSelection; -1 stands for undefined
findTodoSelection(text, insertStartOffset, insertEndOffset) ==
    LET relativeIndex ==
            IndexOf(Slice(text, insertStartOffset, insertEndOffset), TodoMarker, 0)
    IN  IF relativeIndex < 0 THEN -1
        ELSE LineEndFrom(text, insertStartOffset + relativeIndex)

\* findAllIdentifierPositions: the offsets after the matches of
\* \bidentifier\b, ascending
findAllIdentifierPositions(text, identifier) ==
    LET IsMatchEnd(e) ==
            /\ text[e] = identifier
            /\ WordBoundary(text, e - 1)
            /\ WordBoundary(text, e)
    IN  SelectSeq([e \in 1..Len(text) |-> e], IsMatchEnd)

\* SelectionsOf without the test that a match lies in the inserted span
SelectionsAnywhere(text, typeParameters, insertStartOffset, insertEndOffset) ==
    LET ofParameters == Concat([i \in 1..Len(typeParameters) |->
                                    findAllIdentifierPositions(text, typeParameters[i])])
        todoSelection == findTodoSelection(text, insertStartOffset, insertEndOffset)
    IN  IF ofParameters = <<>> /\ todoSelection # -1 THEN << todoSelection >>
        ELSE ofParameters

\* the selections createDerivedClass sets in the updated document; <<>>
\* when it sets none
SelectionsOf(text, typeParameters, insertStartOffset, insertEndOffset) ==
    LET Inside(p) ==
            LET positions == findAllIdentifierPositions(text, p)
            IN  SelectSeq(positions,
                          LAMBDA e : e - 1 >= insertStartOffset /\ e <= insertEndOffset)
        ofParameters == Concat([i \in 1..Len(typeParameters) |->
                                    Inside(typeParameters[i])])
        todoSelection == findTodoSelection(text, insertStartOffset, insertEndOffset)
    IN  IF ofParameters = <<>> /\ todoSelection # -1 THEN << todoSelection >>
        ELSE ofParameters

GnInit ==
    /\ gnMembers \in DistinctSeqs(DeclaredMembers, 0, MaxDeclared)
    /\ gnTypeParameters \in { <<>>, <<"T">> }
    /\ gnText = BaseClassText(gnMembers, gnTypeParameters)
    /\ gnConstructors = <<>>
    /\ gnMethods = <<>>
    /\ gnProperties = <<>>
    /\ gnResult = <<"none">>
    /\ gnSelections = <<>>
    /\ gnError = "none"

\* createDerivedClass(doc, pos, NameBase, NameDerived, gnTypeParameters);
\* provided: the symbol provider returned the document's symbols;
\* applied: what workspace.applyEdit returned
GnCreateDerivedClass(provided, applied) ==
    /\ gnResult = <<"none">>
    /\ gnError = "none"
    /\ \E constructors \in {detectConstructors(gnText, NameBase)},
          abstractMethods \in {detectAbstractMethodsInClass(gnText, NameBase)},
          abstractProperties \in {detectAbstractPropertiesInClass(gnText, NameBase)},
          baseSymbol \in {IF provided THEN BaseClassSymbol(gnText, NameBase)
                          ELSE NoClassSymbol} :
        /\ gnConstructors' = constructors
        /\ gnMethods' = abstractMethods
        /\ gnProperties' = abstractProperties
        /\ IF baseSymbol = NoClassSymbol
           THEN /\ gnError' = "Could not locate the base class in the current document."
                /\ UNCHANGED <<gnText, gnResult, gnSelections>>
           ELSE \E classText \in
                    {LET lineStart  == LineStartBefore(gnText, baseSymbol.selectionStart)
                         baseIndent == Slice(gnText, lineStart, SkipWhite(gnText, lineStart))
                     IN  buildDerivedClassText(baseIndent, IndentUnit, NameBase,
                             NameDerived, GenericSuffix(gnTypeParameters),
                             constructors, abstractMethods, abstractProperties, EOL)} :
                /\ gnResult' = classText
                /\ IF ~applied
                   THEN /\ gnError' = "Failed to insert derived class into document."
                        /\ UNCHANGED <<gnText, gnSelections>>
                   ELSE \E updated \in {InsertText(gnText, baseSymbol.end,
                                                   EOL \o EOL \o classText)} :
                            /\ gnText' = updated
                            /\ gnError' = "none"
                            /\ gnSelections' =
                                   LET selections ==
                                           SelectionsOf(updated, gnTypeParameters,
                                               baseSymbol.end,
                                               baseSymbol.end + 2 + Len(classText))
                                   IN  IF selections = <<>> THEN gnSelections
                                       ELSE selections
    /\ UNCHANGED <<gnMembers, gnTypeParameters>>

InitGen == GnInit /\ IdleExcept("generate")
NextGen ==
    (\E provided, applied \in BOOLEAN : GnCreateDerivedClass(provided, applied))
    /\ UnchangedExcept("generate")
SpecGen == InitGen /\ [][NextGen]_vars

\* the abstract methods and properties the base class declares
DeclaredAbstract ==
    SelectSeq(gnMembers, LAMBDA member : member.kind \in {"method", "property"})

\* the header line of the override of a declared abstract member, written
\* from the declaration: the declaration's own accessibility, type, name,
\* generic parameter list and constraint clause, or its own accessors
ExpectedOverrideLine(member) ==
    EOL \o IndentUnit \o member.accessibility \o <<" ", "override", " ">> \o member.type
    \o <<" ">> \o member.name
    \o (IF member.kind = "method"
        THEN member.generics \o <<"(">> \o member.parameters \o <<")">>
             \o (IF member.constraints = <<>> THEN <<>>
                 ELSE <<" ">> \o member.constraints)
        ELSE <<" ", "{">> \o Concat([i \in 1..Len(member.accessors) |->
                                 <<" ", member.accessors[i], ";">>]) \o <<" ", "}">>)
    \o EOL

\* the overrides in a generated class text
OverrideCount(classText) ==
    Cardinality({p \in 1..Len(classText) : classText[p] = "override"})

\* C9: the generated class has exactly one override per abstract method and
\* abstract property of the base class, and each reproduces its declaration:
\* a method's accessibility, return type, name, generic parameter list and
\* where clause verbatim, a property's accessibility, type, name and exactly
\* the accessors it declares.
C9_OverridesReproduceDeclarations ==
    gnResult # <<"none">> =>
        /\ OverrideCount(gnResult) = Len(DeclaredAbstract)
        /\ \A i \in 1..Len(DeclaredAbstract) :
               IndexOf(gnResult, ExpectedOverrideLine(DeclaredAbstract[i]), 0) # -1

\* C10: no AbstractPropertyInfo of a generation has hasGetter, hasSetter and
\* hasInit all false, and the generated class has no property override with
\* an empty accessor list.
C10_NoPropertyWithoutAccessors ==
    /\ \A i \in 1..Len(gnProperties) :
           \/ gnProperties[i].hasGetter
           \/ gnProperties[i].hasSetter
           \/ gnProperties[i].hasInit
    /\ gnResult # <<"none">> => IndexOf(gnResult, <<" ", "{", " ", "}">>, 0) = -1

\* the span createDerivedClass inserted: it starts where the base class
\* ends and holds two line breaks and the generated class text
InsertedSpan ==
    LET start == BaseClassSymbol(gnText, NameBase).end
    IN  [start |-> start, end |-> start + 2 + Len(gnResult)]

\* the offsets after the whole-word occurrences of the base class's type
\* parameters inside the inserted span
TypeParameterEnds ==
    {e \in 1..Len(gnText) :
        /\ gnText[e] \in Range(gnTypeParameters)
        /\ (e = 1 \/ ~IsWordAtom(gnText[e - 1]))
        /\ (e = Len(gnText) \/ ~IsWordAtom(gnText[e + 1]))
        /\ e - 1 >= InsertedSpan.start
        /\ e <= InsertedSpan.end}

\* the ends of the lines of the inserted span that end with the marker
TodoLineEnds ==
    {e \in InsertedSpan.start..InsertedSpan.end :
        /\ e >= Len(TodoMarker)
        /\ e - Len(TodoMarker) >= InsertedSpan.start
        /\ MatchesAt(gnText, e - Len(TodoMarker), TodoMarker)
        /\ (e = Len(gnText) \/ gnText[e + 1] = "\n")}

\* createDerivedClass returned after inserting the class text
GnInserted == gnResult # <<"none">> /\ gnError = "none"

\* C11: after createDerivedClass inserted the class text, if the base class
\* has type parameters the cursors are one after each whole-word occurrence
\* of a type parameter inside the inserted span and none elsewhere;
\* otherwise there is one cursor, at the end of the line of the inserted
\* span that holds the "// TODO: implement" marker.
C11_CursorsInInsertedSpan ==
    GnInserted =>
        IF gnTypeParameters # <<>>
        THEN /\ Range(gnSelections) = TypeParameterEnds
             /\ Len(gnSelections) = Cardinality(TypeParameterEnds)
        ELSE /\ Len(gnSelections) = 1
             /\ TodoLineEnds = {gnSelections[1]}

\* a generic base class with a generic abstract method: cursors after the
\* T of the base list and after each T of the override
C11_Witness ==
    /\ GnInserted
    /\ gnTypeParameters = <<"T">>
    /\ Len(gnSelections) >= 4
    /\ \E i \in 1..Len(gnMethods) : gnMethods[i].typeParameters = <<"T">>

----------------------------------------------------------------------------
(* getDocumentSymbols and its cache.  The repository has the function in   *)
(* two forms: features/classMembers.ts looks a cached tree of at most one   *)
(* symbol up again, utils/symbols (and extension.ts) returns every cached   *)
(* tree of the document's version.                                          *)

\* the most calls of getDocumentSymbols
MaxLookups == 3
\* the highest document version
MaxVersion == 2

SymbolModules == {"classMembers", "symbols"}

Documents == {"a.cs", "b.cs"}

\* symbol trees, as the names of their top-level symbols: a file with one
\* namespace, a file with two classes
SymbolTrees == { <<"N">>, <<"C", "D">> }

\* what executeDocumentSymbolProvider does: it throws, or resolves to
\* undefined (no provider, or no symbols), or resolves to an array of
\* symbols
ProviderOutcomes ==
    { [kind |-> "throws", symbols |-> <<>>],
      [kind |-> "undefined", symbols |-> <<>>] }
    \cup { [kind |-> "symbols", symbols |-> tree] : tree \in SymbolTrees }

\* documentSymbolCache.get(key) === undefined
NoEntry == [version |-> 0, symbols |-> <<>>]

\* the cached tree is returned without asking the provider
CacheHit(module, cached, version) ==
    /\ cached # NoEntry
    /\ cached.version = version
    /\ (module = "classMembers" => Len(cached.symbols) > 1)

\* the cache entry of a document after a miss, without the eviction of
\* the entry when the provider gave no symbols
CacheAfterKeepingEntry(cached, version, outcome) ==
    IF outcome.kind = "symbols"
    THEN [version |-> version, symbols |-> outcome.symbols]
    ELSE cached

\* the cache entry of a document after a miss: the provider's symbols with
\* the document's version (documentSymbolCache.set), no entry when it
\* threw or gave none (documentSymbolCache.delete)
CacheAfter(cached, version, outcome) ==
    IF outcome.kind = "symbols"
    THEN [version |-> version, symbols |-> outcome.symbols]
    ELSE NoEntry

SyInit ==
    /\ syModule \in SymbolModules
    /\ syVersion = [d \in Documents |-> 1]
    /\ syCache = [d \in Documents |-> NoEntry]
    /\ syPending = <<>>
    /\ syCalls = 0
    /\ syLastCall = "none"
    /\ syInvoked = 0
    /\ syReturn = [doc |-> "none", symbols |-> <<>>, provider |-> "none"]
    /\ syObtained = [d \in Documents |-> NoEntry]
    /\ syAsked = <<>>
    /\ syTreeOf = [d \in Documents |-> 0]
    /\ syReturnOf = [tree |-> 0, document |-> 0]

\* the document changes: its version grows
SyEdit(d) ==
    /\ syVersion[d] < MaxVersion
    /\ syVersion' = [syVersion EXCEPT ![d] = syVersion[d] + 1]
    /\ UNCHANGED <<syModule, syCache, syPending, syCalls, syLastCall,
                   syInvoked, syReturn, syObtained, syAsked, syTreeOf,
                   syReturnOf>>

\* getDocumentSymbols(d) up to its await: a cache hit returns, a miss asks
\* the symbol provider
SyCall(d) ==
    /\ syCalls < MaxLookups
    /\ syCalls' = syCalls + 1
    /\ syLastCall' = d
    /\ IF CacheHit(syModule, syCache[d], syVersion[d])
       THEN /\ syReturn' = [doc |-> d, symbols |-> syCache[d].symbols,
                            provider |-> "none"]
            /\ syReturnOf' = [tree |-> syTreeOf[d], document |-> syVersion[d]]
            /\ UNCHANGED <<syPending, syInvoked, syAsked>>
       ELSE /\ syPending' = Append(syPending, d)
            /\ syAsked' = Append(syAsked, syVersion[d])
            /\ syInvoked' = syInvoked + 1
            /\ UNCHANGED <<syReturn, syReturnOf>>
    /\ UNCHANGED <<syModule, syVersion, syCache, syObtained, syTreeOf>>

\* getDocumentSymbols from its await on: the provider's answer arrives for
\* the i-th pending call; the provider computed it from the content the
\* document had at version `at`, between the request and the answer
SyResume(i, outcome, at) ==
    /\ i \in 1..Len(syPending)
    /\ at \in syAsked[i]..syVersion[syPending[i]]
    /\ LET d == syPending[i]
       IN  /\ syPending' = SubSeq(syPending, 1, i - 1)
                           \o SubSeq(syPending, i + 1, Len(syPending))
           /\ syAsked' = SubSeq(syAsked, 1, i - 1)
                         \o SubSeq(syAsked, i + 1, Len(syAsked))
           /\ syTreeOf' = [syTreeOf EXCEPT ![d] =
                              IF outcome.kind = "symbols" THEN at ELSE 0]
           /\ syReturnOf' = [tree |-> IF outcome.kind = "symbols" THEN at
                                      ELSE syVersion[d],
                             document |-> syVersion[d]]
           /\ syCache' = [syCache EXCEPT ![d] =
                             CacheAfter(syCache[d], syVersion[d], outcome)]
           /\ IF outcome.kind = "symbols"
              THEN /\ syObtained' = [syObtained EXCEPT ![d] =
                                        [version |-> syVersion[d],
                                         symbols |-> outcome.symbols]]
                   /\ syReturn' = [doc |-> d, symbols |-> outcome.symbols,
                                   provider |-> outcome.kind]
              ELSE /\ syReturn' = [doc |-> d, symbols |-> <<>>,
                                   provider |-> outcome.kind]
                   /\ UNCHANGED syObtained
    /\ UNCHANGED <<syModule, syVersion, syCalls, syLastCall, syInvoked>>

InitSymbols == SyInit /\ IdleExcept("symbols")
NextSymbols ==
    \/ (\E d \in Documents : SyEdit(d)) /\ UnchangedExcept("symbols")
    \/ (\E d \in Documents : SyCall(d)) /\ UnchangedExcept("symbols")
    \/ (\E i \in 1..MaxLookups, outcome \in ProviderOutcomes, at \in 1..MaxVersion :
            SyResume(i, outcome, at))
       /\ UnchangedExcept("symbols")
SpecSymbols == InitSymbols /\ [][NextSymbols]_vars

\* C12: once a call has got a tree (one with symbols) for document d from
\* the provider at version v, every call for d that starts while d's
\* version is still v returns that tree and does not invoke the provider.
C12_MemoizedPerVersion ==
    [][\A d \in Documents :
          (/\ syCalls' = syCalls + 1
           /\ syLastCall' = d
           /\ syObtained[d].symbols # <<>>
           /\ syObtained[d].version = syVersion[d])
          => /\ syInvoked' = syInvoked
             /\ syReturn' = [doc |-> d, symbols |-> syObtained[d].symbols,
                             provider |-> "none"]]_vars

C24_CacheEntryOfItsVersion ==
    /\ \A d \in Documents :
          syCache[d] # NoEntry => syTreeOf[d] = syCache[d].version
    /\ syReturnOf.tree = syReturnOf.document

\* a call without an edit in between stores the tree under the version it
\* was computed from
FreshEntryStored ==
    ~(\E d \in Documents : syCache[d] # NoEntry /\ syTreeOf[d] = syCache[d].version
                           /\ syVersion[d] > 1)

\* a cache hit at the document's version returns a tree computed from the
\* content of an older version
StaleHitReturned ==
    ~(syReturn.provider = "none" /\ syReturnOf.tree < syReturnOf.document)
----------------------------------------------------------------------------
(* Create a new interface in documents with namespaces: the command of     *)
(* the interface extraction above, started on a document without           *)
(* interfaces, so that createInterfaceWithMember runs.                     *)

\* where class C stands relative to the document's namespaces:
\*     class C                         namespace N;  class C
\*     namespace N { class C }         namespace N { } namespace M { class C }
\*     namespace N { }  class C        class C  namespace N { }
NamespaceLayouts ==
    {"none", "fileScoped", "block", "secondBlock", "afterBlock", "beforeBlock"}

NamespaceBlock(name, inner) ==
    TxtNamespace \o <<" ">> \o name \o EOL \o <<"{">> \o EOL \o inner \o <<"}">> \o EOL

NamespaceDocument(layout, memberLine) ==
    CASE layout = "fileScoped" ->
            TxtNamespace \o <<" ", "N", ";">> \o EOL \o ClassBlock(memberLine \o EOL)
      [] layout = "block" ->
            NamespaceBlock(<<"N">>, ClassBlock(memberLine \o EOL))
      [] layout = "secondBlock" ->
            NamespaceBlock(<<"N">>, <<>>)
            \o NamespaceBlock(<<"M">>, ClassBlock(memberLine \o EOL))
      [] layout = "afterBlock" ->
            NamespaceBlock(<<"N">>, <<>>) \o ClassBlock(memberLine \o EOL)
      [] layout = "beforeBlock" ->
            ClassBlock(memberLine \o EOL) \o NamespaceBlock(<<"N">>, <<>>)
      [] OTHER ->
            ClassBlock(memberLine \o EOL)

\* the state when the code action has been offered on a member of class C
IfInitNamespaces ==
    /\ \E layout \in NamespaceLayouts, memberLine \in MemberLines :
        /\ ifDoc = NamespaceDocument(layout, memberLine)
        /\ ifMember = extractMemberFromSymbol(ifDoc,
                          positionAt(ifDoc, IndexOf(ifDoc, memberLine, 0)).line)
    /\ ifPc = "idle"
    /\ ifEdit = NoEdit
    /\ ifBefore = <<>>
    /\ ifMessage = "none"
    /\ ifInsertions = [n \in InterfaceNames |-> 0]
    /\ ifCalls = 0

InitCreate == IfInitNamespaces /\ IdleExcept("interface")
NextCreate ==
    \/ IfExtractToInterface /\ UnchangedExcept("interface")
    \/ IfApplyInsert /\ UnchangedExcept("interface")
    \/ IfEnsureAccessibility /\ UnchangedExcept("interface")
SpecCreate == InitCreate /\ [][NextCreate]_vars

\* the block-scoped namespaces of a text: the offsets of their braces
NamespaceBraces(text) ==
    {[open |-> IndexOf(text, <<"{">>, p),
      close |-> findMatchingBrace(text, IndexOf(text, <<"{">>, p))] :
        p \in {q \in 0..(Len(text) - Len(TxtNamespace)) :
                  /\ MatchesAt(text, q, TxtNamespace \o <<" ">>)
                  /\ (q = 0 \/ text[q] = "\n")
                  /\ text[q + Len(TxtNamespace) + 3] = "\n"}}

\* C14: the interface createInterfaceWithMember creates is inserted
\* immediately before the closing brace of the block-scoped namespace that
\* the member lies in; when the member lies in no namespace block (the
\* namespace is file-scoped, or there is none around the member) it is
\* appended at the end of the document.
C14_InsertionFollowsNamespace ==
    ifEdit.path = "create" =>
        LET enclosing == {b \in NamespaceBraces(ifBefore) :
                             b.open < ifMember.startOffset
                             /\ ifMember.startOffset < b.close}
            at == offsetAt(ifBefore, ifEdit.position)
        IN  IF enclosing = {} THEN at = Len(ifBefore)
            ELSE \E b \in enclosing : at = b.close
----------------------------------------------------------------------------
(* The interface extraction actions of provideCodeActions: the member at   *)
(* the caret is detected from the document symbols and, when they yield    *)
(* none, by the regular expressions over the whole text.                   *)

\* [\w<>,\.\[\]\s], the characters of a type in the regular expressions
IsTypeCharacter(a) ==
    IsWordAtom(a) \/ a \in {"<", ">", ",", ".", "[", "]", " ", "\n"}

\* the offset after the longest run of type characters from offset p on
TypeRunEnd(text, p) ==
    CHOOSE r \in p..Len(text) :
        /\ \A k \in (p + 1)..r : IsTypeCharacter(text[k])
        /\ r = Len(text) \/ ~IsTypeCharacter(text[r + 1])

\* the offset where the word that ends at offset e starts
WordStartBefore(text, e) ==
    CHOOSE q \in 0..e :
        /\ \A k \in (q + 1)..e : IsWordAtom(text[k])
        /\ q = 0 \/ ~IsWordAtom(text[q])

\* the offset after the last character of text[from..r) that is not \s
TrimmedEnd(text, from, r) ==
    CHOOSE e \in from..r :
        /\ \A k \in (e + 1)..r : text[k] \in WhiteAtoms
        /\ e = from \/ text[e] \notin WhiteAtoms

\* TYPE\s+NAME\s* over text[typeStart..r): the offsets of NAME, the last
\* word of the run; nameStart = -1 when the run does not split that way
TypeThenNameIn(text, typeStart, r) ==
    LET nameEnd   == TrimmedEnd(text, typeStart, r)
        nameStart == WordStartBefore(text, nameEnd)
    IN  IF /\ nameEnd > nameStart /\ nameStart > typeStart
           /\ text[nameStart] \in WhiteAtoms /\ IsWordAtom(text[typeStart + 1])
        THEN [nameStart |-> nameStart, nameEnd |-> nameEnd]
        ELSE [nameStart |-> -1, nameEnd |-> -1]

\* the accessibility keyword at offset p, followed by \s; <<>> when none
AccessibilityAt(text, p) ==
    LET found == {a \in Accessibilities :
                     /\ MatchesAt(text, p, a)
                     /\ SkipWhite(text, p + Len(a)) > p + Len(a)}
    IN  IF found = {} THEN <<>> ELSE CHOOSE a \in found : TRUE

NoLegacyMatch == [index |-> -1, end |-> -1]

\* propertyRegex after the accessibility: TYPE NAME in text[typeStart..r),
\* "{" at r, then up to the first "}"
PropertyMatchOf(text, p, accessibility, typeStart, r) ==
    IF r >= Len(text) \/ text[r + 1] # "{" \/ IndexOf(text, <<"}">>, r) = -1
    THEN NoLegacyMatch
    ELSE \* the names, then the closing brace
         CHOOSE m \in
            {IF names.nameStart = -1 THEN NoLegacyMatch
             ELSE [index |-> p, end |-> IndexOf(text, <<"}">>, r) + 1,
                   accessibility |-> accessibility,
                   name |-> Slice(text, names.nameStart, names.nameEnd),
                   accessorBlock |-> Slice(text, r + 1, IndexOf(text, <<"}">>, r))] :
                names \in {TypeThenNameIn(text, typeStart, r)}} : TRUE

\* the match of detectPropertyAtPositionLegacy's propertyRegex that starts
\* at offset p; index -1 when none does
PropertyRegexAt(text, p) ==
    IF ~WordBoundary(text, p) THEN NoLegacyMatch
    ELSE CHOOSE m \in
            {IF accessibility = <<>> THEN NoLegacyMatch
             ELSE PropertyMatchOf(text, p, accessibility,
                      SkipWhite(text, p + Len(accessibility)),
                      TypeRunEnd(text, SkipWhite(text, p + Len(accessibility)))) :
                accessibility \in {AccessibilityAt(text, p)}} : TRUE

\* methodRegex after the optional accessibility: TYPE NAME in
\* text[typeStart..r), "(" at r, the parameters up to the first ")", \s*
MethodMatchOf(text, p, accessibility, typeStart, r) ==
    IF r >= Len(text) \/ text[r + 1] # "(" \/ IndexOf(text, <<")">>, r) = -1
    THEN NoLegacyMatch
    ELSE CHOOSE m \in
            {IF names.nameStart = -1 THEN NoLegacyMatch
             ELSE [index |-> p,
                   end |-> SkipWhite(text, IndexOf(text, <<")">>, r) + 1),
                   accessibility |-> accessibility,
                   name |-> Slice(text, names.nameStart, names.nameEnd)] :
                names \in {TypeThenNameIn(text, typeStart, r)}} : TRUE

\* the match of detectMethodAtPositionLegacy's methodRegex that starts at
\* offset p.  The declarations of these documents have no type parameter
\* list and no where clause.
MethodRegexAt(text, p) ==
    IF ~WordBoundary(text, p) \/ p >= Len(text) \/ ~IsWordAtom(text[p + 1])
    THEN NoLegacyMatch
    ELSE CHOOSE m \in
            {MethodMatchOf(text, p, accessibility, typeStart,
                           TypeRunEnd(text, typeStart)) :
                accessibility \in {AccessibilityAt(text, p)},
                typeStart \in {IF AccessibilityAt(text, p) = <<>> THEN p
                               ELSE SkipWhite(text, p + Len(AccessibilityAt(text, p)))}} : TRUE

\* detectEnclosingInterfaceName: whether a line from pos.line up to the
\* first one matches /\binterface\s+([A-Za-z_]\w*)/
detectEnclosingInterfaceName(text, line) ==
    \E l \in 0..line :
        \E p \in LineStart(text, l)..(LineEnd(text, l) - Len(TxtInterface)) :
            /\ WordBoundary(text, p)
            /\ MatchesAt(text, p, TxtInterface)
            /\ SkipWhite(text, p + Len(TxtInterface)) > p + Len(TxtInterface)
            /\ SkipWhite(text, p + Len(TxtInterface)) < LineEnd(text, l)
            /\ IsWordAtom(text[SkipWhite(text, p + Len(TxtInterface)) + 1])

NoMemberInfo == [kind |-> "none", name |-> <<>>]

\* the first match from offset `from` on, by its start; index -1: none
FirstPropertyMatch(text, from) ==
    LET starts == {p \in from..Len(text) : PropertyRegexAt(text, p).index # -1}
    IN  IF starts = {} THEN NoLegacyMatch
        ELSE PropertyRegexAt(text, CHOOSE p \in starts : \A q \in starts : p <= q)

FirstMethodMatch(text, from) ==
    LET starts == {p \in from..Len(text) : MethodRegexAt(text, p).index # -1}
    IN  IF starts = {} THEN NoLegacyMatch
        ELSE MethodRegexAt(text, CHOOSE p \in starts : \A q \in starts : p <= q)

\* detectPropertyAtPositionLegacy: the loop over the matches from offset
\* `from` on; the first match around pos decides
RECURSIVE PropertyLegacyLoop(_, _, _)
PropertyLegacyLoop(text, from, posOffset) ==
    LET match == CHOOSE m \in {FirstPropertyMatch(text, from)} : TRUE
    IN  IF match.index = -1 THEN NoMemberInfo
        ELSE IF posOffset < match.index \/ posOffset > match.end
        THEN PropertyLegacyLoop(text, match.end, posOffset)
        ELSE IF match.accessibility # TxtPublic THEN NoMemberInfo
        ELSE IF detectEnclosingInterfaceName(text, positionAt(text, match.index).line)
        THEN NoMemberInfo
        ELSE IF ~(\E w \in {TxtGet, TxtSet, TxtInit} : HasWord(match.accessorBlock, w))
        THEN NoMemberInfo
        ELSE [kind |-> "property", name |-> match.name]

detectPropertyAtPositionLegacy(text, pos) ==
    PropertyLegacyLoop(text, 0, offsetAt(text, pos))

\* detectMethodAtPositionLegacy
RECURSIVE MethodLegacyLoop(_, _, _)
MethodLegacyLoop(text, from, posOffset) ==
    LET match == CHOOSE m \in {FirstMethodMatch(text, from)} : TRUE
    IN  IF match.index = -1 THEN NoMemberInfo
        ELSE IF posOffset < match.index \/ posOffset > match.end
        THEN MethodLegacyLoop(text, match.end, posOffset)
        ELSE IF match.accessibility \notin {<<>>, TxtPublic, TxtPrivate} THEN NoMemberInfo
        ELSE IF detectEnclosingInterfaceName(text, positionAt(text, match.index).line)
        THEN NoMemberInfo
        ELSE [kind |-> "method", name |-> match.name]

detectMethodAtPositionLegacy(text, pos) ==
    MethodLegacyLoop(text, 0, offsetAt(text, pos))

\* The symbol provider's tree for these documents: each line that declares
\* a member is a Method or a Property symbol from its first word to its
\* end, each interface a symbol around its braces.
DeclaresMember(text, line) ==
    LET t == lineAt(text, line)
    IN  /\ Len(t) - SkipWhite(t, 0) > 1
        /\ \A w \in {TxtClass, TxtInterface, TxtNamespace} : ~HasWord(t, w)

\* the member symbol whose range contains pos; kind "none": there is none
MemberSymbolAt(text, pos) ==
    LET line == Min(pos.line, lineCount(text) - 1)
        t    == lineAt(text, line)
    IN  IF /\ DeclaresMember(text, line)
           /\ pos.character >= SkipWhite(t, 0) /\ pos.character <= Len(t)
        THEN [kind |-> IF IndexOf(t, <<"(">>, 0) # -1 THEN "method" ELSE "property",
              line |-> line,
              start |-> LineStart(text, line) + SkipWhite(t, 0)]
        ELSE [kind |-> "none", line |-> 0, start |-> 0]

\* findEnclosingSymbolByKind(symbols, start, [Interface]) finds a symbol
InInterfaceSymbol(text, offset) ==
    \E i \in detectInterfacesInDocument(text) :
        i.at <= offset /\ offset <= offsetAt(text, i.insertPosition)

\* extractPropertyFromSymbol / extractMethodFromSymbol on the symbol
\* that findEnclosingSymbolByKind finds at pos for the kinds [Property]
\* and [Method]; none when the provider supplied no symbols
MemberOfSymbol(text, symbol) ==
    IF InInterfaceSymbol(text, symbol.start) THEN NoMemberInfo
    ELSE CHOOSE m \in
            {IF info.kind = symbol.kind
             THEN [kind |-> info.kind, name |-> info.name] ELSE NoMemberInfo :
                info \in {extractMemberFromSymbol(text, symbol.line)}} : TRUE

MemberFromSymbol(text, pos, haveSymbols) ==
    IF ~haveSymbols \/ MemberSymbolAt(text, pos).kind = "none" THEN NoMemberInfo
    ELSE MemberOfSymbol(text, MemberSymbolAt(text, pos))

detectPropertyAtPosition(text, pos, fromSymbol) ==
    IF fromSymbol.kind = "property" THEN fromSymbol
    ELSE detectPropertyAtPositionLegacy(text, pos)

detectMethodAtPosition(text, pos, fromSymbol) ==
    IF fromSymbol.kind = "method" THEN fromSymbol
    ELSE detectMethodAtPositionLegacy(text, pos)

\* memberInfo of provideCodeActions: the property, else the method
MemberInfoOf(property, method) ==
    IF property.kind # "none" THEN property ELSE method

MemberInfoWith(text, pos, fromSymbol) ==
    MemberInfoOf(detectPropertyAtPosition(text, pos, fromSymbol),
                 detectMethodAtPosition(text, pos, fromSymbol))

MemberInfoAt(text, pos, haveSymbols) ==
    MemberInfoWith(text, pos, MemberFromSymbol(text, pos, haveSymbols))

\* the interface extraction actions provideCodeActions pushes for memberInfo
ActionsFor(memberInfo, interfaces) ==
    IF memberInfo.kind = "none" THEN {}
    ELSE IF isMemberDeclaredInInterfaces(memberInfo, interfaces) THEN {}
    ELSE {<<"Extract to interface...">>}
         \cup {<<"Add to interface", i.name>> : i \in interfaces}

InterfaceActions(text, memberInfo) ==
    ActionsFor(memberInfo, detectInterfacesInDocument(text))

\* what interface I declares in these documents
DeclaredInInterface ==
    InterfaceBodies
    \cup {TxtInt \o <<" ">> \o NameBaz \o <<" ", "{", " ", "g", "e", "t", ";", " ", "}">>}

\* the documents of the interface extraction, with `class C` or
\* `public class C`
CaInit ==
    /\ \E layout \in Layouts, body \in DeclaredInInterface,
          memberLine \in MemberLines, modifier \in {<<>>, TxtPublic \o <<" ">>} :
        /\ layout = "noInterface" => body = <<>>
        /\ layout = "interfaceFirst" => modifier = <<>>
        /\ caDoc = modifier \o Document(layout, body, memberLine)
    /\ caRequests = 0
    /\ caSymbols = FALSE
    /\ caPos = NoPosition
    /\ caMember = NoMemberInfo
    /\ caActions = {}

MaxRequests == 1

\* provideCodeActions with the caret in the first word of a line; the
\* symbol provider supplies the document's symbols or none
CaProvideCodeActions(line, haveSymbols) ==
    /\ caRequests < MaxRequests
    /\ line < lineCount(caDoc)
    /\ caRequests' = caRequests + 1
    /\ caSymbols' = haveSymbols
    /\ caPos' = [line |-> line,
                 character |-> SkipWhite(lineAt(caDoc, line), 0) + 1]
    /\ caMember' = MemberInfoAt(caDoc, caPos', haveSymbols)
    /\ caActions' = InterfaceActions(caDoc, caMember')
    /\ UNCHANGED caDoc

MaxLines == 10

InitActions == CaInit /\ IdleExcept("actions")
NextActions ==
    \E line \in 0..(MaxLines - 1), haveSymbols \in BOOLEAN :
        CaProvideCodeActions(line, haveSymbols) /\ UnchangedExcept("actions")
SpecActions == InitActions /\ [][NextActions]_vars

\* C15: when the member at the caret is a member of an interface
\* declaration, or a method or property that an interface of the document
\* already declares by the name pattern, provideCodeActions offers neither
\* "Extract to interface..." nor any "Add to interface X".
C15_NoActionForDeclaredMember ==
    caRequests > 0 =>
        LET symbol == MemberSymbolAt(caDoc, caPos)
            declared == extractMemberFromSymbol(caDoc, symbol.line)
        IN  (/\ symbol.kind # "none"
             /\ \/ InInterfaceSymbol(caDoc, symbol.start)
                \/ isMemberDeclaredInInterfaces(
                       [kind |-> symbol.kind, name |-> declared.name],
                       detectInterfacesInDocument(caDoc)))
            => caActions = {}
----------------------------------------------------------------------------
(* Navigate between class members: navigateClassMembers of                 *)
(* commands/showClassMembersCommand.ts over collectClassMembersAtPosition  *)
(* of features/classMembers.ts.                                            *)

\* The workspace.  a.cs declares `partial class C` on line 0 with member
\* lines 1..MaxPartLines, then class D with one member line; b.cs declares
\* the other part of C with one member line.  A member's name (its
\* selectionRange) is at characters 9..12 of its line.
MaxPartLines == 2

Uris == {"a.cs", "b.cs"}
UriOrder == [u \in Uris |-> IF u = "a.cs" THEN 1 ELSE 2]
LineOfD == MaxPartLines + 2

MemberSlots ==
    {<<"a.cs", l>> : l \in 1..MaxPartLines} \cup {<<"a.cs", LineOfD + 1>>, <<"b.cs", 1>>}

SlotKinds(slot) ==
    IF slot[1] = "b.cs" THEN {"None", "Field"}
    ELSE IF slot[2] > MaxPartLines THEN {"None", "Method"}
    ELSE {"None", "Method", "Event"}

At(line, character) == [line |-> line, character |-> character]

MemberSymbol(kind, line) ==
    [id |-> <<line>>, kind |-> kind, name |-> <<"m", line>>,
     range |-> [start |-> At(line, 4), end |-> At(line, 20)],
     selectionRange |-> [start |-> At(line, 9), end |-> At(line, 12)],
     children |-> <<>>]

\* the member symbols of lines first..last of a document, in order
MemberSymbols(kinds, uri, first, last) ==
    LET Declared(s) == s.kind # "None"
    IN  SelectSeq([i \in 1..(last - first + 1) |->
                      MemberSymbol(kinds[<<uri, first + i - 1>>], first + i - 1)],
                  Declared)

ClassSymbol(name, first, last, children) ==
    [id |-> <<first>>, kind |-> "Class", name |-> name,
     range |-> [start |-> At(first, 0), end |-> At(last, 1)],
     selectionRange |-> [start |-> At(first, 14), end |-> At(first, 15)],
     children |-> children]

\* getDocumentSymbols(doc)
SymbolsOf(kinds, uri) ==
    IF uri = "a.cs"
    THEN << ClassSymbol("C", 0, MaxPartLines + 1,
                        MemberSymbols(kinds, uri, 1, MaxPartLines)),
            ClassSymbol("D", LineOfD, LineOfD + 2,
                        MemberSymbols(kinds, uri, LineOfD + 1, LineOfD + 1)) >>
    ELSE << ClassSymbol("C", 0, 2, MemberSymbols(kinds, uri, 1, 1)) >>

\* findClassSymbols: the Class symbols of the name, in pre-order
findClassSymbols(symbols, className) ==
    LET Named(s) == s.name = className
    IN  SelectSeq(collectSymbolsByKind(symbols, "Class"), Named)

isRelevantMember(symbol) ==
    symbol.kind \in {"Field", "Property", "Method", "Constructor", "Event",
                     "Struct", "Interface", "Enum", "Class"}

isNavigableMemberKind(kind) ==
    kind \in {"Method", "Property", "Field", "Constructor"}

\* buildQuickPickItem: location and symbolKind
QuickPickItem(uri, symbol) ==
    [uri |-> uri, range |-> symbol.selectionRange, symbolKind |-> symbol.kind]

\* the items of the classes of the name in one document
ItemsOfDocument(kinds, uri, className) ==
    LET Relevant(s) == isRelevantMember(s)
        classes == findClassSymbols(SymbolsOf(kinds, uri), className)
    IN  Concat([k \in 1..Len(classes) |->
                   [j \in 1..Len(SelectSeq(classes[k].children, Relevant)) |->
                       QuickPickItem(uri, SelectSeq(classes[k].children, Relevant)[j])]])

\* a - b of compareClassToPosition and of compareItems within one file
ComparePositions(a, b) ==
    IF a.line # b.line THEN a.line - b.line ELSE a.character - b.character

\* compareItems and compareItemToPosition: by uri, then by range.start
CompareToPlace(item, uri, position) ==
    IF item.uri # uri THEN UriOrder[item.uri] - UriOrder[uri]
    ELSE ComparePositions(item.range.start, position)

\* items.sort(compareItems)
RECURSIVE SortItems(_)
SortItems(items) ==
    IF items = <<>> THEN <<>>
    ELSE LET rest == SortItems(Tail(items))
             LessOrEqual(x) == CompareToPlace(x, Head(items).uri, Head(items).range.start) <= 0
             Greater(x) == CompareToPlace(x, Head(items).uri, Head(items).range.start) > 0
         IN  SelectSeq(rest, LessOrEqual) \o << Head(items) >> \o SelectSeq(rest, Greater)

OtherUri(uri) == IF uri = "a.cs" THEN "b.cs" ELSE "a.cs"

\* collectClassMembersAtPosition for the class symbol found at the cursor:
\* C is partial, its other file is discovered or not
ItemsOfClass(kinds, uri, classSymbol, partials) ==
    SortItems(ItemsOfDocument(kinds, uri, classSymbol.name)
              \o (IF classSymbol.name = "C" /\ partials
                  THEN ItemsOfDocument(kinds, OtherUri(uri), classSymbol.name)
                  ELSE <<>>))

\* filterItemsByNavigationScope, then the filter by isNavigableMemberKind,
\* then candidates.sort(compareItems)
CandidatesOf(items, uri, across) ==
    LET Kept(item) == (across \/ item.uri = uri) /\ isNavigableMemberKind(item.symbolKind)
    IN  SortItems(SelectSeq(items, Kept))

\* findCurrentIndex, 0-based; -1 when the cursor is on no item
findCurrentIndex(items, uri, position) ==
    LET hits == {i \in 1..Len(items) :
                    items[i].uri = uri /\ Contains(items[i].range, position)}
    IN  IF hits = {} THEN -1 ELSE (CHOOSE i \in hits : \A j \in hits : i <= j) - 1

NoTarget == [uri |-> "none", range |-> NoRange, symbolKind |-> "None"]

\* the first / last element of a sequence that satisfies a set of indices
findFirstAfterPosition(items, uri, position) ==
    LET after == {i \in 1..Len(items) : CompareToPlace(items[i], uri, position) > 0}
    IN  IF after = {} THEN NoTarget
        ELSE items[CHOOSE i \in after : \A j \in after : i <= j]

findLastBeforePosition(items, uri, position) ==
    LET before == {i \in 1..Len(items) : CompareToPlace(items[i], uri, position) < 0}
    IN  IF before = {} THEN NoTarget
        ELSE items[CHOOSE i \in before : \A j \in before : i >= j]

\* the target before the wrap: by the current index, else by the position
TargetInDirectionOffByOne(candidates, currentIndex, direction, uri, position) ==
    IF direction = "next"
    THEN IF currentIndex >= 0 /\ currentIndex < Len(candidates) - 1
         THEN candidates[Min(currentIndex + 3, Len(candidates))]
         ELSE IF currentIndex = -1
         THEN findFirstAfterPosition(candidates, uri, position) ELSE NoTarget
    ELSE IF currentIndex > 0 THEN candidates[currentIndex]
         ELSE IF currentIndex = -1
         THEN findLastBeforePosition(candidates, uri, position) ELSE NoTarget

TargetInDirection(candidates, currentIndex, direction, uri, position) ==
    IF direction = "next"
    THEN IF currentIndex >= 0 /\ currentIndex < Len(candidates) - 1
         THEN candidates[currentIndex + 2]
         ELSE IF currentIndex = -1
         THEN findFirstAfterPosition(candidates, uri, position) ELSE NoTarget
    ELSE IF currentIndex > 0 THEN candidates[currentIndex]
         ELSE IF currentIndex = -1
         THEN findLastBeforePosition(candidates, uri, position) ELSE NoTarget

\* the target after the wrap; NoTarget: the command returns
WrappedTarget(target, candidates, direction, wrap) ==
    IF target # NoTarget \/ ~wrap THEN target
    ELSE IF direction = "next" THEN candidates[1] ELSE candidates[Len(candidates)]

\* navigateToNearestClassSymbol: the place it reveals, the cursor's own
\* place when it reveals none
NearestClassPlace(kinds, cursor, direction, wrap) ==
    LET classes == collectSymbolsByKind(SymbolsOf(kinds, cursor.uri), "Class")
        items   == [i \in 1..Len(classes) |-> QuickPickItem(cursor.uri, classes[i])]
        target  == IF direction = "next"
                   THEN findFirstAfterPosition(items, cursor.uri, cursor.pos)
                   ELSE findLastBeforePosition(items, cursor.uri, cursor.pos)
    IN  CHOOSE place \in
            {IF resolved = NoTarget THEN cursor
             ELSE [uri |-> cursor.uri, pos |-> resolved.range.start] :
                resolved \in {WrappedTarget(target, items, direction, wrap)}} : TRUE

\* navigateClassMembers with the candidates of the class at the cursor
MemberPlace(candidates, cursor, direction, wrap) ==
    IF candidates = <<>> THEN cursor
    ELSE CHOOSE place \in
            {IF target = NoTarget THEN cursor
             ELSE [uri |-> target.uri, pos |-> target.range.start] :
                target \in {WrappedTarget(
                               TargetInDirection(candidates,
                                   findCurrentIndex(candidates, cursor.uri, cursor.pos),
                                   direction, cursor.uri, cursor.pos),
                               candidates, direction, wrap)}} : TRUE

\* the candidates of navigateClassMembers at a cursor inside a class
CandidatesAt(kinds, cursor, classSymbol, partials, across) ==
    CandidatesOf(ItemsOfClass(kinds, cursor.uri, classSymbol, partials),
                 cursor.uri, across)

\* navigateClassMembers: where the cursor is afterwards
PlaceAfter(kinds, cursor, classSymbol, direction, wrap, across, partials) ==
    IF classSymbol.kind = "None"
    THEN NearestClassPlace(kinds, cursor, direction, wrap)
    ELSE IF ItemsOfClass(kinds, cursor.uri, classSymbol, partials) = <<>>
    THEN NearestClassPlace(kinds, cursor, direction, wrap)
    ELSE MemberPlace(CandidatesAt(kinds, cursor, classSymbol, partials, across),
                     cursor, direction, wrap)

navigateClassMembers(kinds, cursor, direction, wrap, across, partials) ==
    PlaceAfter(kinds, cursor,
               findEnclosingSymbolByKind(SymbolsOf(kinds, cursor.uri), cursor.pos, {"Class"}),
               direction, wrap, across, partials)

LastLine(uri) == IF uri = "a.cs" THEN LineOfD + 3 ELSE 3

NvInit ==
    /\ nvKinds \in {k \in [MemberSlots -> {"None", "Method", "Event", "Field"}] :
                       \A s \in MemberSlots : k[s] \in SlotKinds(s)}
    /\ nvWrap \in BOOLEAN
    /\ nvAcross \in BOOLEAN
    /\ nvPartials \in BOOLEAN
    /\ \E uri \in Uris, line \in 0..(MaxPartLines + 5), character \in {9, 15} :
        /\ line <= LastLine(uri)
        /\ nvCursor = [uri |-> uri, pos |-> At(line, character)]
    /\ nvLast = "none"
    /\ nvStart = nvCursor
    /\ nvVisited = {}

\* the command extension.navigateToNextClassMember / ...PreviousClassMember
NvNavigate(direction) ==
    /\ nvCursor' = navigateClassMembers(nvKinds, nvCursor, direction,
                                        nvWrap, nvAcross, nvPartials)
    /\ nvLast' = direction
    /\ IF direction = "next"
       THEN /\ nvStart' = IF nvLast = "next" THEN nvStart ELSE nvCursor
            /\ nvVisited' = (IF nvLast = "next" THEN nvVisited ELSE {})
                            \cup (IF nvCursor' # nvCursor THEN {nvCursor'} ELSE {})
       ELSE /\ nvStart' = nvCursor'
            /\ nvVisited' = {}
    /\ UNCHANGED <<nvKinds, nvWrap, nvAcross, nvPartials>>

InitNavigate == NvInit /\ IdleExcept("navigate")
NextNavigate ==
    \/ NvNavigate("next") /\ UnchangedExcept("navigate")
    \/ NvNavigate("previous") /\ UnchangedExcept("navigate")
SpecNavigate == InitNavigate /\ [][NextNavigate]_vars

\* the sorted candidate members of the class the cursor is in; <<>> when
\* the cursor is in no class
NavigationCandidates ==
    LET classSymbol == findEnclosingSymbolByKind(SymbolsOf(nvKinds, nvCursor.uri),
                                                 nvCursor.pos, {"Class"})
    IN  IF classSymbol.kind = "None" THEN <<>>
        ELSE CandidatesAt(nvKinds, nvCursor, classSymbol, nvPartials, nvAcross)

PlaceOf(item) == [uri |-> item.uri, pos |-> item.range.start]

\* the index of the candidate the cursor is on; 0 when it is on none
CurrentCandidate ==
    LET on == {i \in 1..Len(NavigationCandidates) :
                  /\ NavigationCandidates[i].uri = nvCursor.uri
                  /\ Contains(NavigationCandidates[i].range, nvCursor.pos)}
    IN  IF on = {} THEN 0 ELSE CHOOSE i \in on : TRUE

\* steps: with the cursor on candidate i of the n sorted candidates,
\* 'next' puts the cursor on candidate i+1 and 'previous' on candidate
\* i-1; at the last candidate 'next', and at the first 'previous', leaves
\* the cursor where it is when wrapNavigation is off and puts it on the
\* first, respectively the last, candidate when it is on.
StepsAlongCandidates ==
    [][CurrentCandidate # 0 =>
          /\ nvLast' = "next" =>
                nvCursor' = IF CurrentCandidate < Len(NavigationCandidates)
                            THEN PlaceOf(NavigationCandidates[CurrentCandidate + 1])
                            ELSE IF nvWrap THEN PlaceOf(NavigationCandidates[1])
                            ELSE nvCursor
          /\ nvLast' = "previous" =>
                nvCursor' = IF CurrentCandidate > 1
                            THEN PlaceOf(NavigationCandidates[CurrentCandidate - 1])
                            ELSE IF nvWrap
                            THEN PlaceOf(NavigationCandidates[Len(NavigationCandidates)])
                            ELSE nvCursor]_vars

\* round trip: with wrapNavigation on, when a run of 'next' commands
\* that started on a candidate is back where it started, it has revealed
\* every candidate.
NextVisitsEveryCandidate ==
    (/\ nvWrap /\ nvLast = "next" /\ nvVisited # {}
     /\ nvCursor = nvStart /\ CurrentCandidate # 0)
    => \A i \in 1..Len(NavigationCandidates) :
          PlaceOf(NavigationCandidates[i]) \in nvVisited

\* C16: member navigation steps along the sorted candidate list ('next' to
\* the candidate after the current one, 'previous' to the one before it,
\* staying put at either end unless wrapNavigation is on, then going round
\* to the other end), so that with wrapping a run of 'next' commands
\* reveals every candidate before it is back where it started.
C16_MemberNavigation == StepsAlongCandidates /\ []NextVisitsEveryCandidate

\* a run of 'next' commands is back at its start after three or more
\* candidates, one of them in the other file
C16_Witness ==
    /\ nvWrap /\ nvLast = "next" /\ nvCursor = nvStart /\ CurrentCandidate # 0
    /\ Cardinality(nvVisited) >= 3
    /\ \E place \in nvVisited : place.uri # nvCursor.uri

----------------------------------------------------------------------------
(* The class-name index: workspace events, the debounced update timer and   *)
(* the flushUpdates passes.  A uri is <<name, extension>>; the text of a    *)
(* file is kept as the index keys that updateFile derives from it.          *)

MaxEvents == 2
MaxEventFiles == 2

IxUris == {<<"a", ".cs">>, <<"b", ".cs">>, <<"n", ".txt">>}
Contents == {{}, {"::A"}, {"::A", "::B"}}
LanguageIds == {"csharp", "plaintext"}

\* isCSharpFile: uri.path.endsWith(".cs")
isCSharpFile(uri) == uri[Len(uri)] = ".cs"

EmptyMap == [k \in {} |-> {}]
NoneOf == [uri \in IxUris |-> 0]

MapDelete(map, key) == [k \in DOMAIN map \ {key} |-> map[k]]
MapSet(map, key, value) ==
    [k \in DOMAIN map \cup {key} |-> IF k = key THEN value ELSE map[k]]

\* set.delete(key) for each of the keys, and index.delete of a key whose
\* set became empty
RemoveFromIndex(idx, keys, file) ==
    LET touched == keys \cap DOMAIN idx
        kept    == {k \in DOMAIN idx : k \notin touched \/ idx[k] \ {file} # {}}
    IN  [k \in kept |-> IF k \in touched THEN idx[k] \ {file} ELSE idx[k]]

\* set.add(key) for each of the keys, creating the missing sets
AddToIndex(idx, keys, file) ==
    [k \in DOMAIN idx \cup keys |->
        IF k \notin keys THEN idx[k]
        ELSE IF k \in DOMAIN idx THEN idx[k] \cup {file} ELSE {file}]

\* removeFile, on the maps m = [index, fileToKeys]
removeFile(m, uri) ==
    IF ~isCSharpFile(uri) THEN m
    ELSE IF uri \notin DOMAIN m.fileToKeys THEN m
    ELSE [index      |-> RemoveFromIndex(m.index, m.fileToKeys[uri], uri),
          fileToKeys |-> MapDelete(m.fileToKeys, uri)]

\* an updateFile that leaves the file under the keys its new text no
\* longer declares
ApplyReadWithoutPruning(m, uri, read) ==
    IF ~read.ok THEN removeFile(m, uri)
    ELSE IF read.keys = {}
    THEN [index |-> m.index, fileToKeys |-> MapDelete(m.fileToKeys, uri)]
    ELSE [index      |-> AddToIndex(m.index, read.keys, uri),
          fileToKeys |-> MapSet(m.fileToKeys, uri, read.keys)]

\* updateFile after its read: read = [ok, keys], keys being the newKeys of
\* the text read
ApplyRead(m, uri, read) ==
    IF ~read.ok THEN removeFile(m, uri)
    ELSE LET oldKeys == IF uri \in DOMAIN m.fileToKeys
                        THEN m.fileToKeys[uri] ELSE {}
             pruned  == RemoveFromIndex(m.index, oldKeys \ read.keys, uri)
         IN  IF read.keys = {}
             THEN [index |-> pruned, fileToKeys |-> MapDelete(m.fileToKeys, uri)]
             ELSE [index      |-> AddToIndex(pruned, read.keys, uri),
                   fileToKeys |-> MapSet(m.fileToKeys, uri, read.keys)]

\* enqueueUpdate that sets a timer whether or not one is pending
enqueueUpdateAlwaysScheduling(q, uri) ==
    IF ~isCSharpFile(uri) THEN q
    ELSE [pendingUpdates |-> IF uri \in Range(q.pendingUpdates)
                             THEN q.pendingUpdates
                             ELSE Append(q.pendingUpdates, uri),
          updateTimer    |-> TRUE,
          timers         |-> q.timers + 1,
          notified       |-> [q.notified EXCEPT ![uri] = @ + 1]]

\* enqueueUpdate, on q = [pendingUpdates, updateTimer, timers, notified]
enqueueUpdate(q, uri) ==
    IF ~isCSharpFile(uri) THEN q
    ELSE [pendingUpdates |-> IF uri \in Range(q.pendingUpdates)
                             THEN q.pendingUpdates
                             ELSE Append(q.pendingUpdates, uri),
          updateTimer    |-> TRUE,
          timers         |-> IF q.updateTimer THEN q.timers ELSE q.timers + 1,
          notified       |-> [q.notified EXCEPT ![uri] = @ + 1]]

\* for (const uri of event.files) enqueueUpdate(uri)
RECURSIVE EnqueueAll(_, _)
EnqueueAll(q, files) ==
    IF files = <<>> THEN q
    ELSE EnqueueAll(enqueueUpdate(q, Head(files)), Tail(files))

\* for (const uri of event.files) removeFile(uri)
RECURSIVE RemoveAll(_, _)
RemoveAll(m, files) ==
    IF files = <<>> THEN m
    ELSE RemoveAll(removeFile(m, Head(files)), Tail(files))

Queue == [pendingUpdates |-> pendingUpdates, updateTimer |-> updateTimer,
          timers |-> ixTimers, notified |-> ixNotified]
Maps == [index |-> index, fileToKeys |-> fileToKeys]

SetQueue(q) ==
    /\ pendingUpdates' = q.pendingUpdates
    /\ updateTimer' = q.updateTimer
    /\ ixTimers' = q.timers
    /\ ixNotified' = q.notified

SetMaps(m) ==
    /\ index' = m.index
    /\ fileToKeys' = m.fileToKeys

\* event.files: one to MaxEventFiles distinct files
EventFiles(uris) ==
    {files \in UNION {[1..n -> uris] : n \in 1..MaxEventFiles} :
        \A i, j \in 1..Len(files) : files[i] = files[j] => i = j}

\* the index keys declared by the texts of the existing C# files
KeysOf(content, existing) ==
    [uri \in IxUris |-> IF uri \in existing /\ isCSharpFile(uri)
                        THEN content[uri] ELSE {}]

IxInit ==
    /\ ixExists \in {{}, {<<"a", ".cs">>, <<"n", ".txt">>}}
    /\ ixContent = KeysOf([uri \in IxUris |-> {"::A"}], ixExists)
    /\ index = EmptyMap
    /\ fileToKeys = EmptyMap
    /\ pendingUpdates = <<>>
    /\ updateTimer = FALSE
    /\ ixTimers = 0
    /\ ixNotified = NoneOf
    /\ ixPasses = <<>>
    /\ ixEvents = 0

\* onDidSaveTextDocument
IxSave(uri, languageId, content) ==
    /\ ixEvents < MaxEvents
    /\ ixEvents' = ixEvents + 1
    /\ ixExists' = ixExists \cup {uri}
    /\ ixContent' = KeysOf([ixContent EXCEPT ![uri] = content], ixExists')
    /\ IF languageId # "csharp" THEN UNCHANGED <<pendingUpdates, updateTimer, ixTimers, ixNotified>>
       ELSE SetQueue(enqueueUpdate(Queue, uri))
    /\ UNCHANGED <<index, fileToKeys, ixPasses>>

\* onDidCreateFiles
IxCreate(files, content) ==
    /\ ixEvents < MaxEvents
    /\ ixEvents' = ixEvents + 1
    /\ ixExists' = ixExists \cup Range(files)
    /\ ixContent' = KeysOf([uri \in IxUris |-> IF uri \in Range(files) THEN content
                                               ELSE ixContent[uri]], ixExists')
    /\ SetQueue(EnqueueAll(Queue, files))
    /\ UNCHANGED <<index, fileToKeys, ixPasses>>

\* onDidDeleteFiles
IxDelete(files) ==
    /\ ixEvents < MaxEvents
    /\ ixEvents' = ixEvents + 1
    /\ ixExists' = ixExists \ Range(files)
    /\ ixContent' = KeysOf(ixContent, ixExists')
    /\ SetMaps(RemoveAll(Maps, files))
    /\ UNCHANGED <<pendingUpdates, updateTimer, ixTimers, ixNotified, ixPasses>>

\* onDidRenameFiles, for an event of one file
IxRename(oldUri, newUri) ==
    /\ ixEvents < MaxEvents
    /\ ixEvents' = ixEvents + 1
    /\ ixExists' = (ixExists \ {oldUri}) \cup {newUri}
    /\ ixContent' = KeysOf([ixContent EXCEPT ![newUri] = ixContent[oldUri]], ixExists')
    /\ SetMaps(removeFile(Maps, oldUri))
    /\ SetQueue(enqueueUpdate(Queue, newUri))
    /\ UNCHANGED ixPasses

\* updateFile returns at once for a file that is not a C# file
RECURSIVE SkipIgnored(_)
SkipIgnored(queue) ==
    IF queue = <<>> THEN <<>>
    ELSE IF isCSharpFile(Head(queue)) THEN queue
    ELSE SkipIgnored(Tail(queue))

NoRead == [ok |-> FALSE, keys |-> {}]

\* a flushUpdates pass whose next updateFile call awaits its read
PassOver(queue, updated, notified) ==
    [queue    |-> queue,
     stage    |-> IF queue = <<>> THEN "done" ELSE "reading",
     read     |-> NoRead,
     updated  |-> updated,
     notified |-> notified]

\* the timer callback: updateTimer = undefined; void flushUpdates()
IxTimerFires ==
    /\ ixTimers > 0
    /\ ixTimers' = ixTimers - 1
    /\ updateTimer' = FALSE
    /\ pendingUpdates' = <<>>
    /\ ixNotified' = NoneOf
    /\ ixPasses' = Append(ixPasses,
                          PassOver(SkipIgnored(pendingUpdates), NoneOf, ixNotified))
    /\ UNCHANGED <<ixExists, ixContent, index, fileToKeys, ixEvents>>

\* vscode.workspace.fs.readFile(uri) of pass p completes
IxReadFile(p) ==
    /\ ixPasses[p].stage = "reading"
    /\ LET uri == Head(ixPasses[p].queue)
       IN  ixPasses' = [ixPasses EXCEPT ![p].stage = "read",
                            ![p].read = IF uri \in ixExists
                                        THEN [ok |-> TRUE, keys |-> ixContent[uri]]
                                        ELSE NoRead]
    /\ UNCHANGED <<ixExists, ixContent, index, fileToKeys, pendingUpdates, updateTimer, ixTimers, ixNotified, ixEvents>>

\* updateFile of pass p resumes after its read, and flushUpdates goes on to
\* its next file
IxUpdateFile(p) ==
    /\ ixPasses[p].stage = "read"
    /\ LET pass == ixPasses[p]
           uri  == Head(pass.queue)
       IN  /\ SetMaps(ApplyRead(Maps, uri, pass.read))
           /\ ixPasses' = [ixPasses EXCEPT ![p] =
                  PassOver(SkipIgnored(Tail(pass.queue)),
                           [pass.updated EXCEPT ![uri] = @ + 1], pass.notified)]
    /\ UNCHANGED <<ixExists, ixContent, pendingUpdates, updateTimer, ixTimers, ixNotified, ixEvents>>

InitIndex == IxInit /\ IdleExcept("index")

NextIndex ==
    \/ (\E uri \in IxUris, languageId \in LanguageIds, content \in Contents :
            IxSave(uri, languageId, content)) /\ UnchangedExcept("index")
    \/ (\E files \in EventFiles(IxUris), content \in Contents :
            IxCreate(files, content)) /\ UnchangedExcept("index")
    \/ (\E files \in EventFiles(ixExists) : IxDelete(files)) /\ UnchangedExcept("index")
    \/ (\E oldUri \in ixExists, newUri \in IxUris \ ixExists :
            IxRename(oldUri, newUri)) /\ UnchangedExcept("index")
    \/ IxTimerFires /\ UnchangedExcept("index")
    \/ (\E p \in DOMAIN ixPasses : IxReadFile(p)) /\ UnchangedExcept("index")
    \/ (\E p \in DOMAIN ixPasses : IxUpdateFile(p)) /\ UnchangedExcept("index")

SpecIndex == InitIndex /\ [][NextIndex]_vars

\* at most one timer is pending
AtMostOneTimer == ixTimers <= 1

\* a notification that arrives while a timer is pending schedules no timer
NoFurtherTimer ==
    [][(ixTimers > 0 /\ ixEvents' # ixEvents) => ixTimers' = ixTimers]_vars

\* a pass re-indexes no file twice, and by its end every C# file notified
\* before the timer fired exactly once and no other file
EachNotifiedFileOnce ==
    \A p \in DOMAIN ixPasses : \A uri \in IxUris :
        /\ ixPasses[p].updated[uri] <= 1
        /\ ixPasses[p].updated[uri] = 1 => ixPasses[p].notified[uri] > 0
        /\ ixPasses[p].stage = "done" /\ ixPasses[p].notified[uri] > 0
               => ixPasses[p].updated[uri] = 1

\* C17: index updates are coalesced: at most one update timer is pending at
\* any time, a save/create/rename notification that arrives while a timer is
\* pending schedules no further timer, and the pass started by the timer
\* re-indexes each distinct notified C# file exactly once, however many
\* notifications it had.
C17_UpdatesCoalesced ==
    /\ []AtMostOneTimer
    /\ NoFurtherTimer
    /\ []EachNotifiedFileOnce

\* a finished pass that re-indexed once a file notified several times, and
\* another notified file as well
C17_Witness ==
    \E p \in DOMAIN ixPasses : \E uri, other \in IxUris :
        /\ ixPasses[p].stage = "done"
        /\ ixPasses[p].notified[uri] >= 2
        /\ ixPasses[p].updated[uri] = 1
        /\ other # uri
        /\ ixPasses[p].notified[other] >= 1
        /\ ixPasses[p].updated[other] = 1

----------------------------------------------------------------------------
(* The order of the edit built by buildMoveMemberWorkspaceEdit.             *)

\* the members the offered edit moves
MovedSet ==
    Range(collectMembersWithDependencies(mvContext.member, mvContext.allMembers))

StartOffset(range) == offsetAt(mvText, range.start)

\* the inserted block is the prepared texts of the moved members, by
\* ascending start offset, between one line break and one line break
BlockInSourceOrder ==
    \E members \in [1..Cardinality(MovedSet) -> MovedSet] :
        /\ \A i, j \in DOMAIN members :
                i < j => StartOffset(members[i].range) < StartOffset(members[j].range)
        /\ mvEdit.text =
                EOL \o TrimEnd(JoinWith([i \in DOMAIN members |->
                         prepareMemberTextForInsertion(members[i].text, EOL)],
                         EOL \o EOL)) \o EOL

\* the block has one line break before its first and after its last line
OneLineBreakEachSide ==
    LET block == mvEdit.text
    IN  /\ Len(block) > 2 * Len(EOL)
        /\ SubSeq(block, 1, Len(EOL)) = EOL
        /\ block[Len(EOL) + 1] \notin {"\n", "\r"}
        /\ SubSeq(block, Len(block) - Len(EOL) + 1, Len(block)) = EOL
        /\ block[Len(block) - Len(EOL)] \notin {"\n", "\r", " ", "\t"}

\* the deletions are the moved members' ranges, each once, every one
\* starting before the one issued before it
DeletionsDescending ==
    /\ Len(mvEdit.deletions) = Cardinality(MovedSet)
    /\ Range(mvEdit.deletions) = {member.range : member \in MovedSet}
    /\ \A i, j \in DOMAIN mvEdit.deletions :
            i < j => StartOffset(mvEdit.deletions[i]) > StartOffset(mvEdit.deletions[j])

\* the insertion position is the brace closing the base class's body
BeforeClosingBrace ==
    LET at   == offsetAt(mvText, mvEdit.position)
        from == offsetAt(mvText, mvContext.baseClassSymbol.range.start)
    IN  /\ mvText[at + 1] = "}"
        /\ findMatchingBrace(mvText, IndexOf(mvText, <<"{">>, from)) = at

\* C18: in the edit built by buildMoveMemberWorkspaceEdit the members appear
\* in the inserted block in ascending order of their source start offset,
\* the deletions are issued in strictly descending order of start offset,
\* and the block is inserted immediately before the base class's closing
\* brace with one leading and one trailing line break.
C18_MoveEditOrder ==
    (mvPos # <<>> /\ mvPos # NoCaret /\ mvEdit.defined)
        => /\ BlockInSourceOrder
           /\ OneLineBreakEachSide
           /\ DeletionsDescending
           /\ BeforeClosingBrace

\* an edit that moves a member together with a member declared before it
C18_Witness ==
    /\ mvPos # <<>>
    /\ mvPos # NoCaret
    /\ mvEdit.defined
    /\ Len(mvEdit.deletions) >= 2
    /\ \E member \in MovedSet : member.order < mvContext.member.order

----------------------------------------------------------------------------
(* detectConstructors on documents that hold more than the base class.      *)

\* the constructors a base class of these documents declares, and a
\* method that is no constructor
ConstructorMembers ==
    { Constructor(<<"protected">>, <<"int", " ", "a", ",", " ", "ref", " ", "string", " ", "b">>),
      Constructor(<<"public">>, <<>>),
      Method(<<"public">>, <<"void">>, <<"Run">>, <<>>, <<>>, <<>>) }

\* what follows the base class in the document: nothing, a class that
\* creates a Base with an argument, a class that calls a method Base(x)
\* of its own, or a class that creates a Base without arguments
Usages ==
    { <<>>,
      <<"class", " ", "User">> \o EOL \o <<"{">> \o EOL
        \o IndentUnit \o <<"object", " ", "Make", "(", ")", " ", "{", " ", "return", " ", "new", " ", "Base", "(", "1", ")", ";", " ", "}">> \o EOL
        \o <<"}">> \o EOL,
      <<"class", " ", "Other">> \o EOL \o <<"{">> \o EOL
        \o IndentUnit \o <<"void", " ", "Base", "(", "int", " ", "x", ")", " ", "{", " ", "Base", "(", "x", ")", ";", " ", "}">> \o EOL
        \o <<"}">> \o EOL,
      <<"class", " ", "Maker">> \o EOL \o <<"{">> \o EOL
        \o IndentUnit \o <<"object", " ", "Make", "(", ")", " ", "{", " ", "return", " ", "new", " ", "Base", "(", ")", ";", " ", "}">> \o EOL
        \o <<"}">> \o EOL }

GnInitUsages ==
    /\ gnMembers \in DistinctSeqs(ConstructorMembers, 0, MaxDeclared)
    /\ gnTypeParameters \in { <<>>, <<"T">> }
    /\ \E usage \in Usages :
            gnText = BaseClassText(gnMembers, gnTypeParameters) \o usage
    /\ gnConstructors = <<>>
    /\ gnMethods = <<>>
    /\ gnProperties = <<>>
    /\ gnResult = <<"none">>
    /\ gnSelections = <<>>
    /\ gnError = "none"

InitConstructors == GnInitUsages /\ IdleExcept("generate")
NextConstructors ==
    (\E provided, applied \in BOOLEAN : GnCreateDerivedClass(provided, applied))
    /\ UnchangedExcept("generate")
SpecConstructors == InitConstructors /\ [][NextConstructors]_vars

\* createDerivedClass has run
GnRan == gnResult # <<"none">> \/ gnError # "none"

\* the constructor header of the base class's body that an entry was
\* taken from
FromDeclaredConstructor(ctor) ==
    \E j \in DOMAIN gnMembers :
        /\ gnMembers[j].kind = "constructor"
        /\ gnMembers[j].parameters = ctor.parameters
        /\ gnMembers[j].accessibility = ctor.accessibility

\* C19: every constructor entry produced for the base class comes from a
\* constructor header inside the body of the class's declaration and has a
\* non-empty parameter list; text outside that body that looks like
\* Base(args) yields no entry, and a class with only a parameterless
\* constructor yields none.
C19_ConstructorsFromClassBody ==
    GnRan => \A i \in DOMAIN gnConstructors :
                /\ gnConstructors[i].parameters # <<>>
                /\ FromDeclaredConstructor(gnConstructors[i])

----------------------------------------------------------------------------
(* findEnclosingSymbolByKind on symbol trees of any shape: a provider's     *)
(* symbols are used as returned, and nothing in the code requires a child's *)
(* range to lie inside its parent's.                                        *)

MaxSymbolLine == 1
MaxFinds == 1

SymbolRanges ==
    {[start |-> [line |-> a, character |-> 0], end |-> [line |-> b, character |-> 1]] :
        a \in 0..MaxSymbolLine, b \in 0..MaxSymbolLine} \ {NoRange}

ProperRanges == {range \in SymbolRanges : range.start.line <= range.end.line}
NodeKinds == {"Class", "Method"}
KindSets == {{"Class"}, {"Method"}, {"Class", "Method"}}
Positions == {[line |-> l, character |-> c] : l \in 0..MaxSymbolLine, c \in {0, 2}}

Node(id, kind, range, children) ==
    [id |-> id, kind |-> kind, name |-> <<>>, range |-> range, children |-> children]

\* no symbol, or one symbol with the given id and children
OneOrNone(id, kinds, childLists) ==
    {<<>>} \cup {<<Node(id, kind, range, children)>> :
                    kind \in kinds, range \in ProperRanges, children \in childLists}

\* a class or method with at most one member that has at most one member,
\* and possibly a second top-level class
Forests ==
    {first \o second :
        first \in OneOrNone(<<1>>, NodeKinds,
                     OneOrNone(<<1, 1>>, NodeKinds,
                         OneOrNone(<<1, 1, 1>>, NodeKinds, {<<>>}))) \ {<<>>},
        second \in OneOrNone(<<2>>, {"Class"}, {<<>>})}

EnInit ==
    /\ enSymbols \in Forests
    /\ enPos = NoPosition
    /\ enKinds = {}
    /\ enResult = NoSymbol
    /\ enCalls = 0

\* findEnclosingSymbolByKind(symbols, pos, kinds)
EnFind(pos, kinds) ==
    /\ enCalls < MaxFinds
    /\ enCalls' = enCalls + 1
    /\ enPos' = pos
    /\ enKinds' = kinds
    /\ enResult' = findEnclosingSymbolByKind(enSymbols, pos, kinds)
    /\ UNCHANGED enSymbols

InitEnclosing == EnInit /\ IdleExcept("enclosing")
NextEnclosing ==
    (\E pos \in Positions, kinds \in KindSets : EnFind(pos, kinds))
    /\ UnchangedExcept("enclosing")
SpecEnclosing == InitEnclosing /\ [][NextEnclosing]_vars

\* the symbols of a list and all their descendants
RECURSIVE SymbolsUnder(_)
SymbolsUnder(symbols) ==
    Range(symbols)
    \cup UNION {SymbolsUnder(symbols[i].children) : i \in DOMAIN symbols}

\* the symbols of a list and those of their descendants whose ancestors in
\* the list all contain the position
RECURSIVE ReachableUnder(_)
ReachableUnder(symbols) ==
    Range(symbols)
    \cup UNION {ReachableUnder(symbols[i].children) :
                    i \in {j \in DOMAIN symbols : Contains(symbols[j].range, enPos)}}

\* the symbol's range contains the position and its kind is asked for
Matches(symbol) == Contains(symbol.range, enPos) /\ symbol.kind \in enKinds

\* a returned symbol is a symbol of the tree that matches
ResultMatches ==
    enResult # NoSymbol => enResult \in SymbolsUnder(enSymbols) /\ Matches(enResult)

\* nothing is returned only if nothing reachable through containing
\* ancestors matches
NothingOnlyIfNoMatch ==
    enResult = NoSymbol => \A symbol \in ReachableUnder(enSymbols) : ~Matches(symbol)

\* C20, as stated: the returned symbol contains the position and has a
\* requested kind, it is returned only if no descendant of it contains the
\* position and has a requested kind, and nothing is returned only if no
\* symbol reachable through containing ancestors matches.
C20_DeepestOfAllDescendants ==
    enCalls > 0
        => /\ ResultMatches
           /\ enResult # NoSymbol
                 => \A symbol \in SymbolsUnder(enResult.children) : ~Matches(symbol)
           /\ NothingOnlyIfNoMatch

\* C20, amended: the returned symbol contains the position and has a
\* requested kind, it is returned only if no descendant of it that is
\* reachable through containing ancestors contains the position and has a
\* requested kind, and nothing is returned only if no symbol reachable
\* through containing ancestors matches.
C20_DeepestReachableMatch ==
    enCalls > 0
        => /\ ResultMatches
           /\ enResult # NoSymbol
                 => \A symbol \in ReachableUnder(enResult.children) : ~Matches(symbol)
           /\ NothingOnlyIfNoMatch

\* a member is returned although the class around it matches as well
C20_Witness ==
    /\ enCalls > 0
    /\ enResult # NoSymbol
    /\ Len(enResult.id) >= 2
    /\ Matches(enSymbols[1])

----------------------------------------------------------------------------
(* isPartialClass: the scanner for the `partial` keyword.  The header text  *)
(* is read as it is scanned: every iteration of the loop sees text[i] and   *)
(* text[i + 1], drawn from the alphabet below.  An identifier atom stands   *)
(* for a run of identifier characters; a token is kept as far as           *)
(* `token === "partial"` can tell tokens apart: "", "par", "partial", and    *)
(* "other" for every token that is neither and can never become one.       *)

MaxLineLength == 4
MaxHeaderLines == 2

FlagNames == {"inLineComment", "inBlockComment", "inString", "inChar", "inVerbatimString"}
ClearState == [flag \in FlagNames |-> FALSE]

IdentifierAtoms == {"par", "tial", "x"}
ScanAlphabet == IdentifierAtoms \cup {" ", "/", "*", "\"", "'", "@", "\\"}

\* isIdentifierChar: /[A-Za-z0-9_]/
isIdentifierChar(ch) == ch \in IdentifierAtoms

\* token += ch
TokenPlus(token, ch) ==
    CASE token = "" /\ ch = "par" -> "par"
      [] token = "par" /\ ch = "tial" -> "partial"
      [] OTHER -> "other"

\* one of the flags of a comment or literal that can span characters, but
\* not the character literal's
InsideCommentOrString(state) ==
    state.inBlockComment \/ state.inString \/ state.inVerbatimString

\* one of the four branches that consume a character inside a block
\* comment, a string, a verbatim string or a character literal applies
InsideCommentOrLiteral(state) ==
    state.inBlockComment \/ state.inString \/ state.inVerbatimString \/ state.inChar

\* what one iteration leaves: the state, the token, whether i was advanced
\* past text[i + 1] as well, and whether the function returned found
Iteration(state, token, skip, found) ==
    [state |-> state, token |-> token, skip |-> skip, found |-> found]

\* the iteration inside a block comment, string, verbatim string or
\* character literal
InsideStep(state, token, ch, next) ==
    IF state.inBlockComment
    THEN IF ch = "*" /\ next = "/"
         THEN Iteration([state EXCEPT !.inBlockComment = FALSE], token, TRUE, FALSE)
         ELSE Iteration(state, token, FALSE, FALSE)
    ELSE IF state.inString
    THEN IF ch = "\\" /\ next # "" THEN Iteration(state, token, TRUE, FALSE)
         ELSE IF ch = "\"" THEN Iteration([state EXCEPT !.inString = FALSE], token, FALSE, FALSE)
         ELSE Iteration(state, token, FALSE, FALSE)
    ELSE IF state.inVerbatimString
    THEN IF ch = "\"" /\ next = "\"" THEN Iteration(state, token, TRUE, FALSE)
         ELSE IF ch = "\""
         THEN Iteration([state EXCEPT !.inVerbatimString = FALSE], token, FALSE, FALSE)
         ELSE Iteration(state, token, FALSE, FALSE)
    ELSE IF ch = "\\" /\ next # "" THEN Iteration(state, token, TRUE, FALSE)
    ELSE IF ch = "'" THEN Iteration([state EXCEPT !.inChar = FALSE], token, FALSE, FALSE)
    ELSE Iteration(state, token, FALSE, FALSE)

\* the iteration with none of those flags set
CodeStep(state, token, ch, next) ==
    IF ch = "/" /\ next = "/"
    THEN Iteration([state EXCEPT !.inLineComment = TRUE], token, TRUE, FALSE)
    ELSE IF ch = "/" /\ next = "*"
    THEN Iteration([state EXCEPT !.inBlockComment = TRUE], token, TRUE, FALSE)
    ELSE IF ch = "@" /\ next = "\""
    THEN Iteration([state EXCEPT !.inVerbatimString = TRUE], token, FALSE, FALSE)
    ELSE IF ch = "\"" THEN Iteration([state EXCEPT !.inString = TRUE], token, FALSE, FALSE)
    ELSE IF ch = "'" THEN Iteration([state EXCEPT !.inChar = TRUE], token, FALSE, FALSE)
    ELSE IF isIdentifierChar(ch) THEN Iteration(state, TokenPlus(token, ch), FALSE, FALSE)
    ELSE IF token = "partial" THEN Iteration(state, token, FALSE, TRUE)
    ELSE Iteration(state, "", FALSE, FALSE)

\* the body of the for loop of scanLineForPartial, after the test of
\* inLineComment
ScanStep(state, token, ch, next) ==
    IF InsideCommentOrLiteral(state) THEN InsideStep(state, token, ch, next)
    ELSE CodeStep(state, token, ch, next)

\* the characters text[i] can be when i characters of the line are consumed
CharsAt(i) == IF i >= MaxLineLength THEN {""} ELSE ScanAlphabet \cup {""}

\* the identifier characters read in a row with no flag set; a whole
\* `partial` that another character ended is kept
RunAfter(state, run, ch) ==
    IF ~InsideCommentOrLiteral(state) /\ isIdentifierChar(ch)
    THEN TokenPlus(run, ch)
    ELSE IF run = "partial" THEN "partial" ELSE ""

PsInit ==
    /\ psLines \in 1..MaxHeaderLines
    /\ psLine = 0
    /\ psCol = 0
    /\ psCh \in CharsAt(0)
    /\ psLast = ""
    /\ psState = ClearState
    /\ psToken = ""
    /\ psRun = ""
    /\ psResult = "scanning"

\* one iteration of the loop of scanLineForPartial
PsScanChar(next, after) ==
    /\ psResult = "scanning"
    /\ psCh # ""
    /\ ~psState.inLineComment
    /\ \E step \in {ScanStep(psState, psToken, psCh, next)} :
        /\ psState' = step.state
        /\ psToken' = step.token
        /\ psResult' = IF step.found THEN "true" ELSE "scanning"
        /\ psRun' = IF step.found THEN psRun
                    ELSE IF step.skip THEN RunAfter(psState, psRun, "")
                    ELSE RunAfter(psState, psRun, psCh)
        /\ IF step.skip
           THEN /\ next # ""
                /\ psCol' = psCol + 2
                /\ psCh' = after
           ELSE /\ after = ""
                /\ psCol' = psCol + 1
                /\ psCh' = next
    /\ psLast' = psCh
    /\ UNCHANGED <<psLines, psLine>>

\* scanLineForPartial leaves its loop (end of the text, or the break in a
\* line comment) and isPartialClass goes on
PsEndLine(first) ==
    /\ psResult = "scanning"
    /\ psCh = "" \/ psState.inLineComment
    /\ psLine' = psLine + 1
    /\ IF psToken = "partial"
       THEN /\ psResult' = "true"
            /\ UNCHANGED <<psState, psCol, psCh, psRun>>
            /\ first = ""
       ELSE IF psLine + 1 = psLines
       THEN /\ psResult' = "false"
            /\ psState' = [psState EXCEPT !.inLineComment = FALSE]
            /\ UNCHANGED <<psCol, psCh, psRun>>
            /\ first = ""
       ELSE /\ psResult' = "scanning"
            /\ psState' = [psState EXCEPT !.inLineComment = FALSE]
            /\ psCol' = 0
            /\ psCh' = first
            /\ psRun' = RunAfter(psState, psRun, "")
    /\ UNCHANGED <<psLines, psLast, psToken>>

InitPartial == PsInit /\ IdleExcept("partial")
NextPartial ==
    \/ (\E next \in CharsAt(psCol + 1), after \in CharsAt(psCol + 2) :
            PsScanChar(next, after)) /\ UnchangedExcept("partial")
    \/ (\E first \in CharsAt(0) : PsEndLine(first)) /\ UnchangedExcept("partial")
SpecPartial == InitPartial /\ [][NextPartial]_vars

FlagsSet(state) == {flag \in FlagNames : state[flag]}

\* at most one of the five flags is set
AtMostOneFlag == Cardinality(FlagsSet(psState)) <= 1

\* an iteration that starts with a flag set leaves the token as it was
FlaggedCharsSkipped == [][FlagsSet(psState) # {} => psToken' = psToken]_vars

\* C21: after any sequence of characters and lines at most one of the five
\* state flags is set, and no identifier character read while a flag is set
\* contributes to the token compared against `partial`.
C21_FlagsExclusive == []AtMostOneFlag /\ FlaggedCharsSkipped

\* an identifier read inside a string after `par`, and the token is still
\* `par`
C21_Witness ==
    /\ psState.inString
    /\ psLast = "tial"
    /\ psToken = "par"

\* isPartialClass is about to scan a line
AtLineStart == psResult = "scanning" /\ psCol = 0

\* C22: at the start of every line scanned by isPartialClass only the block
\* comment and verbatim string states can be carried over from the previous
\* line; the line comment, double-quoted string and character literal
\* states are clear.
C22_OnlyBlockAndVerbatimCarried ==
    AtLineStart => /\ ~psState.inLineComment
                   /\ ~psState.inString
                   /\ ~psState.inChar

\* the part of C22 that the code keeps: no line starts in a line comment
LineCommentCleared == AtLineStart => ~psState.inLineComment

\* C30: isPartialClass returns true only if the scanned header lines hold
\* the identifier `partial` as one contiguous token in code state: the
\* identifier characters read in a row, with no line break, comment or
\* literal between them, spell `partial` when it returns true.
C30_PartialIsOneToken == psResult = "true" => psRun = "partial"

\* true is also returned for a contiguous `partial`
ContiguousPartialFound == ~(psResult = "true" /\ psRun = "partial")

\* ---------------------------------------------------------------------
\* detectPropertyAtPosition: the symbol path and the text path
\* ---------------------------------------------------------------------

MaxBlocks == 2
MaxBlockMembers == 1
MaxDetects == 1

ClassLine == <<"class", " ", "A", "<", "T", ">", " ", "{">>
StructLine == <<"struct", " ", "S", " ", "{">>
InterfaceLine == <<"interface", " ", "I", " ", "{">>
PublicPropertyLine ==
    <<"public", " ", "T", " ", "P", " ", "{", " ", "get", ";", " ", "}">>
PrivatePropertyLine ==
    <<"private", " ", "T", " ", "Q", " ", "{", " ", "get", ";", " ", "}">>
CloseLine == << "}" >>
HeaderLines == {ClassLine, StructLine, InterfaceLine}
PropertyLines == {PublicPropertyLine, PrivatePropertyLine}
ExIdentifiers == {"A", "S", "I", "T", "P", "Q"}
ExAccessWords == {"public", "protected", "internal", "private"}

\* undefined, where an extraction result or a class info is expected
NoInfo == [found |-> FALSE]

RECURSIVE MemberLists(_)
MemberLists(n) ==
    IF n = 0 THEN {<<>>}
    ELSE MemberLists(n - 1)
         \cup {members \o <<line>> :
                 members \in {m \in MemberLists(n - 1) : Len(m) = n - 1},
                 line \in PropertyLines}

\* a type declaration with its members and its closing brace
Blocks ==
    {<<header>> \o members \o <<CloseLine>> :
        header \in HeaderLines, members \in MemberLists(MaxBlockMembers)}

RECURSIVE DocsOf(_)
DocsOf(n) ==
    IF n = 0 THEN {<<>>}
    ELSE {doc \o block : doc \in DocsOf(n - 1), block \in Blocks}

ExDocuments == UNION {DocsOf(n) : n \in 1..MaxBlocks}

\* /\bclass\s+([A-Za-z_]\w*)\s*(<([^>]+)>)?/.exec(lineText) and the
\* type parameters taken from group 3
ClassInfoOfLine(line) ==
    LET hits == {p \in 1..(Len(line) - 2) :
                    /\ line[p] = "class"
                    /\ line[p + 1] = " "
                    /\ line[p + 2] \in ExIdentifiers}
    IN  IF hits = {} THEN NoInfo
        ELSE LET p == CHOOSE h \in hits : \A other \in hits : h <= other
             IN  [found |-> TRUE,
                  name |-> line[p + 2],
                  typeParameters |->
                      IF /\ Len(line) >= p + 5
                         /\ line[p + 3] = "<"
                         /\ line[p + 4] \in ExIdentifiers
                         /\ line[p + 5] = ">"
                      THEN << line[p + 4] >> ELSE <<>>]

\* /\binterface\s+([A-Za-z_]\w*)/.exec(lineText) has a match
InterfaceOnLine(line) ==
    \E p \in 1..(Len(line) - 2) :
        /\ line[p] = "interface"
        /\ line[p + 1] = " "
        /\ line[p + 2] \in ExIdentifiers

\* detectEnclosingClassInfo: the nearest line at or above pos that holds
\* a class header
RECURSIVE detectEnclosingClassInfo(_, _)
detectEnclosingClassInfo(doc, line) ==
    IF line < 0 THEN NoInfo
    ELSE IF ClassInfoOfLine(doc[line + 1]).found THEN ClassInfoOfLine(doc[line + 1])
    ELSE detectEnclosingClassInfo(doc, line - 1)

\* detectEnclosingInterfaceName returns a name
RECURSIVE InsideInterfaceText(_, _)
InsideInterfaceText(doc, line) ==
    IF line < 0 THEN FALSE
    ELSE InterfaceOnLine(doc[line + 1]) \/ InsideInterfaceText(doc, line - 1)

\* the match of the property expression on the text of one line:
\* accessibility, type, name and an accessor block
PropertyMatch(line) ==
    IF /\ Len(line) >= 8
       /\ line[1] \in ExAccessWords
       /\ line[2] = " "
       /\ line[3] \in ExIdentifiers
       /\ line[4] = " "
       /\ line[5] \in ExIdentifiers
       /\ line[6] = " "
       /\ line[7] = "{"
       /\ \E q \in 8..Len(line) : line[q] = "}"
    THEN [found |-> TRUE, accessibility |-> line[1], type |-> line[3],
          name |-> line[5],
          accessorBlock |->
              SubSeq(line, 8,
                     (CHOOSE q \in 8..Len(line) :
                         /\ line[q] = "}"
                         /\ \A r \in 8..(q - 1) : line[r] # "}") - 1)]
    ELSE NoInfo

\* /\bget\b/, /\bset\b/ or /\binit\b/ matches the accessor block
HasAccessorWord(accessorBlock) ==
    \E q \in 1..Len(accessorBlock) : accessorBlock[q] \in {"get", "set", "init"}

\* extractClassInfoFromSymbol: name and type parameters from symbol.detail
extractClassInfoFromSymbol(symbol) ==
    IF symbol.detail = <<>> \/ symbol.detail[1] \notin ExIdentifiers THEN NoInfo
    ELSE [found |-> TRUE,
          name |-> symbol.detail[1],
          typeParameters |->
              IF /\ Len(symbol.detail) >= 4
                 /\ symbol.detail[2] = "<"
                 /\ symbol.detail[3] \in ExIdentifiers
                 /\ symbol.detail[4] = ">"
              THEN << symbol.detail[3] >> ELSE <<>>]

\* findUsedTypeParameters
findUsedTypeParameters(type, classInfo) ==
    IF ~classInfo.found THEN <<>>
    ELSE SelectSeq(classInfo.typeParameters, LAMBDA candidate : candidate = type)

\* the returned member description; origin records, for the fields that
\* describe the enclosing class, the routine that computed them
PropertyInfo(match, classInfo, path, classOrigin) ==
    [found |-> TRUE,
     kind |-> "property",
     name |-> match.name,
     type |-> match.type,
     enclosingClassName |-> IF classInfo.found THEN classInfo.name ELSE "",
     requiredTypeParameters |-> findUsedTypeParameters(match.type, classInfo),
     path |-> path,
     origin |-> [name |-> path, type |-> path,
                 enclosingClassName |-> classOrigin,
                 requiredTypeParameters |-> classOrigin]]

extractPropertyFromSymbol(doc, propertySymbol, symbols) ==
    LET start == propertySymbol.range.start
        match == PropertyMatch(doc[start.line + 1])
        classSymbol == findEnclosingSymbolByKind(symbols, start, {"Class"})
    IN  IF findEnclosingSymbolByKind(symbols, start, {"Interface"}).kind # "None"
        THEN NoInfo
        ELSE IF ~match.found THEN NoInfo
        ELSE IF match.accessibility # "public" THEN NoInfo
        ELSE IF ~HasAccessorWord(match.accessorBlock) THEN NoInfo
        ELSE IF classSymbol.kind # "None"
        THEN PropertyInfo(match, extractClassInfoFromSymbol(classSymbol),
                          "symbol", "symbol")
        ELSE PropertyInfo(match, detectEnclosingClassInfo(doc, start.line),
                          "symbol", "text")

\* detectPropertyAtPositionLegacy with the enclosing class of its result;
\* the declarations of these documents hold no line break, so the match
\* that contains pos is the match on the line of pos
PropertyInfoLegacy(doc, pos) ==
    LET match == PropertyMatch(doc[pos.line + 1])
    IN  IF ~match.found THEN NoInfo
        ELSE IF match.accessibility # "public" THEN NoInfo
        ELSE IF InsideInterfaceText(doc, pos.line) THEN NoInfo
        ELSE IF ~HasAccessorWord(match.accessorBlock) THEN NoInfo
        ELSE PropertyInfo(match, detectEnclosingClassInfo(doc, pos.line),
                          "text", "text")

\* detectPropertyAtPosition with the enclosing class of its result
PropertyInfoAtPosition(doc, pos, symbols) ==
    LET propertySymbol == findEnclosingSymbolByKind(symbols, pos, {"Property"})
        propertyInfo == IF propertySymbol.kind = "None" THEN NoInfo
                        ELSE extractPropertyFromSymbol(doc, propertySymbol, symbols)
    IN  IF propertyInfo.found THEN propertyInfo
        ELSE PropertyInfoLegacy(doc, pos)

\* the kind and the detail the symbol provider gives for a declaration
KindOfHeader(line) ==
    CASE line[1] = "class" -> "Class"
      [] line[1] = "struct" -> "Struct"
      [] OTHER -> "Interface"

DetailOfHeader(line) == SubSeq(line, 3, Len(line) - 2)

LineRange(first, last, width) ==
    [start |-> [line |-> first, character |-> 0],
     end |-> [line |-> last, character |-> width]]

PropertySymbol(doc, i) ==
    [id |-> <<i>>, kind |-> "Property", name |-> <<doc[i][5]>>, detail |-> <<>>,
     range |-> LineRange(i - 1, i - 1, Len(doc[i])), children |-> <<>>]

RECURSIVE PropertySymbols(_, _, _)
PropertySymbols(doc, i, close) ==
    IF i >= close THEN <<>>
    ELSE << PropertySymbol(doc, i) >> \o PropertySymbols(doc, i + 1, close)

\* the tree of a provider that knows the document: one symbol for each
\* declaration, with its properties as children
RECURSIVE ProviderSymbols(_, _)
ProviderSymbols(doc, i) ==
    IF i > Len(doc) THEN <<>>
    ELSE LET close == CHOOSE j \in (i + 1)..Len(doc) :
                          /\ doc[j] = CloseLine
                          /\ \A k \in (i + 1)..(j - 1) : doc[k] # CloseLine
         IN  << [id |-> <<i>>, kind |-> KindOfHeader(doc[i]),
                 name |-> <<doc[i][3]>>, detail |-> DetailOfHeader(doc[i]),
                 range |-> LineRange(i - 1, close - 1, 1),
                 children |-> PropertySymbols(doc, i + 1, close)] >>
             \o ProviderSymbols(doc, close + 1)

ExInit ==
    /\ exDoc \in ExDocuments
    /\ exSymbols \in {ProviderSymbols(exDoc, 1), <<>>}
    /\ exPos = <<>>
    /\ exResult = "idle"
    /\ exCalls = 0

ExDetect(pos) ==
    /\ exCalls < MaxDetects
    /\ exCalls' = exCalls + 1
    /\ exPos' = pos
    /\ exResult' = PropertyInfoAtPosition(exDoc, pos, exSymbols)
    /\ UNCHANGED <<exDoc, exSymbols>>

InitExtract == ExInit /\ IdleExcept("extract")
NextExtract ==
    (\E line \in 0..(Len(exDoc) - 1) :
        ExDetect([line |-> line, character |-> 2])) /\ UnchangedExcept("extract")
SpecExtract == InitExtract /\ [][NextExtract]_vars

ExReturned == exCalls > 0 /\ exResult.found

\* C23: each extraction takes its whole result from one path: the text
\* path is consulted only when the symbol path produced no result, and a
\* result of the symbol path holds no field computed by the text path
\* (and the other way round).
C23_OnePathPerResult ==
    ExReturned =>
        \A field \in DOMAIN exResult.origin : exResult.origin[field] = exResult.path

\* the text path is consulted only when the symbol path produced nothing
TextPathOnlyAfterSymbolPath ==
    (ExReturned /\ exResult.path = "text") =>
        \/ findEnclosingSymbolByKind(exSymbols, exPos, {"Property"}).kind = "None"
        \/ ~extractPropertyFromSymbol(exDoc,
               findEnclosingSymbolByKind(exSymbols, exPos, {"Property"}), exSymbols).found

\* a property of a struct that follows a class: the symbol path names the
\* class of the text above as the enclosing class
StructPropertyNamedAfterClass ==
    ~(/\ ExReturned
      /\ exResult.path = "symbol"
      /\ exResult.enclosingClassName = "A"
      /\ findEnclosingSymbolByKind(exSymbols, exPos, {"Class"}).kind = "None")

\* ---------------------------------------------------------------------
\* The initial build of the class index: ensureIndexBuilding and
\* buildIndex of utils/output.ts, next to the notifications and the
\* flushUpdates passes above
\* ---------------------------------------------------------------------

MaxActivations == 2

CsUris == {uri \in IxUris : isCSharpFile(uri)}

\* the order in which findFiles lists the files
FindOrder == << <<"a", ".cs">>, <<"b", ".cs">> >>

\* vscode.workspace.findFiles("**/*.cs", ...) on the files that exist
findFiles(existing) == SelectSeq(FindOrder, LAMBDA uri : uri \in existing)

BdInit ==
    /\ indexReady = FALSE
    /\ indexBuilding = FALSE
    /\ bdStage = "none"
    /\ bdPass = 0
    /\ bdFiles = <<>>
    /\ bdStarts = 0
    /\ bdActivations = 0

\* onDidChangeActiveTextEditor, and the end of startClassIndexing: a C#
\* editor calls ensureIndexBuilding, and buildIndex runs up to its await
BdActivate(languageId) ==
    /\ bdActivations < MaxActivations
    /\ bdActivations' = bdActivations + 1
    /\ IF languageId = "csharp" /\ ~indexBuilding
       THEN /\ indexBuilding' = TRUE
            /\ bdStage' = "finding"
            /\ bdStarts' = bdStarts + 1
       ELSE UNCHANGED <<indexBuilding, bdStage, bdStarts>>
    /\ UNCHANGED <<indexReady, bdPass, bdFiles, ixVars>>

\* findFiles settles: buildIndex logs and returns when it rejected, and
\* starts its loop over the files when it resolved; the finally callback
\* runs when buildIndex has returned
BdFindFiles(resolved) ==
    /\ bdStage = "finding"
    /\ IF resolved
       THEN /\ bdFiles' = findFiles(ixExists)
            /\ ixPasses' = Append(ixPasses, PassOver(bdFiles', NoneOf, NoneOf))
            /\ bdPass' = Len(ixPasses) + 1
            /\ bdStage' = IF bdFiles' = <<>> THEN "built" ELSE "updating"
            /\ indexReady' = (bdFiles' = <<>>)
       ELSE /\ bdStage' = "failed"
            /\ indexReady' = TRUE
            /\ UNCHANGED <<bdFiles, bdPass, ixPasses>>
    /\ UNCHANGED <<indexBuilding, bdStarts, bdActivations>>
    /\ UNCHANGED <<ixExists, ixContent, index, fileToKeys, pendingUpdates,
                   updateTimer, ixTimers, ixNotified, ixEvents>>

\* updateFile resumes after its read in a flushUpdates pass or in the loop
\* of buildIndex; the finally callback runs after the last file of the
\* build
BdUpdateFile(p) ==
    /\ IxUpdateFile(p)
    /\ IF p = bdPass /\ ixPasses'[p].stage = "done"
       THEN /\ bdStage' = "built"
            /\ indexReady' = TRUE
       ELSE UNCHANGED <<bdStage, indexReady>>
    /\ UNCHANGED <<indexBuilding, bdPass, bdFiles, bdStarts, bdActivations>>

InitBuild == IxInit /\ BdInit /\ IdleExcept("build")

NextBuild ==
    \/ (\E languageId \in LanguageIds : BdActivate(languageId))
       /\ UnchangedExcept("build")
    \/ (\E resolved \in BOOLEAN : BdFindFiles(resolved)) /\ UnchangedExcept("build")
    \/ (\E p \in DOMAIN ixPasses : BdUpdateFile(p)) /\ UnchangedExcept("build")
    \/ (\E p \in DOMAIN ixPasses : IxReadFile(p))
       /\ UNCHANGED bdVars /\ UnchangedExcept("build")
    \/ IxTimerFires /\ UNCHANGED bdVars /\ UnchangedExcept("build")
    \/ (\E uri \in CsUris, content \in Contents : IxSave(uri, "csharp", content))
       /\ UNCHANGED bdVars /\ UnchangedExcept("build")
    \/ (\E uri \in CsUris, content \in Contents : IxCreate(<<uri>>, content))
       /\ UNCHANGED bdVars /\ UnchangedExcept("build")
    \/ (\E uri \in ixExists \cap CsUris : IxDelete(<<uri>>))
       /\ UNCHANGED bdVars /\ UnchangedExcept("build")
    \/ (\E oldUri \in ixExists \cap CsUris, newUri \in CsUris \ ixExists :
            IxRename(oldUri, newUri))
       /\ UNCHANGED bdVars /\ UnchangedExcept("build")

SpecBuild == InitBuild /\ [][NextBuild]_vars

\* no timer is pending, no file waits for a flush, findFiles and every
\* updateFile call have finished
Quiescent ==
    /\ ixTimers = 0
    /\ pendingUpdates = <<>>
    /\ bdStage # "finding"
    /\ \A p \in DOMAIN ixPasses : ixPasses[p].stage = "done"

\* the keys the index records for a file
RecordedKeys(uri) == IF uri \in DOMAIN fileToKeys THEN fileToKeys[uri] ELSE {}

\* some updateFile call for the file has completed
Updated(uri) == \E p \in DOMAIN ixPasses : ixPasses[p].updated[uri] > 0

\* C25: after the file-deleted (or renamed-away) notification for file f
\* has been processed and all in-flight index tasks have finished, f is in
\* no index entry and has no fileToKeys entry, even if an updateFile(f) was
\* suspended on its read when the notification was processed.
C25_DeletedFileLeavesIndex ==
    Quiescent =>
        \A uri \in CsUris \ ixExists :
            /\ uri \notin DOMAIN fileToKeys
            /\ \A k \in DOMAIN index : uri \notin index[k]

\* a deleted file whose entries removeFile took out of the index
DeletedFileRemoved ==
    ~(/\ Quiescent
      /\ \E uri \in CsUris \ ixExists : Updated(uri) /\ uri \notin DOMAIN fileToKeys
      /\ fileToKeys # EmptyMap)

\* C26: once no further notifications arrive and every pending timer and
\* update task has finished, the index keys recorded for each file are
\* those of the file's most recent content, also after overlapping
\* updateFile runs for the file.
C26_LatestContentIndexed ==
    Quiescent =>
        \A uri \in CsUris \cap ixExists :
            Updated(uri) => RecordedKeys(uri) = ixContent[uri]

\* the two maps agree, and neither holds an empty set
MapsConsistent ==
    /\ \A k \in DOMAIN index : index[k] # {}
    /\ \A uri \in DOMAIN fileToKeys : fileToKeys[uri] # {}
    /\ \A k \in DOMAIN index : \A uri \in index[k] :
          uri \in DOMAIN fileToKeys /\ k \in fileToKeys[uri]
    /\ \A uri \in DOMAIN fileToKeys : \A k \in fileToKeys[uri] :
          k \in DOMAIN index /\ uri \in index[k]

\* C27: after every completed updateFile or removeFile step the two index
\* maps are mutually consistent: file f is in index[k] exactly when k is in
\* fileToKeys[f], index maps no key to an empty set and fileToKeys maps no
\* file to an empty key set.
C27_IndexMapsConsistent == MapsConsistent

\* two files under one key, after an update that took a key away from one
\* of them
C27_Witness ==
    /\ \E k \in DOMAIN index : Cardinality(index[k]) = 2
    /\ \E uri \in DOMAIN fileToKeys :
          /\ Cardinality(fileToKeys[uri]) = 1
          /\ \E p, q \in DOMAIN ixPasses :
                p # q /\ ixPasses[p].updated[uri] > 0 /\ ixPasses[q].updated[uri] > 0

\* the loop of buildIndex has called updateFile for every file found
BuiltFromAllFiles ==
    /\ bdStage = "built"
    /\ \A i \in 1..Len(bdFiles) : ixPasses[bdPass].updated[bdFiles[i]] = 1

\* C28: the class index is reported ready only after an initial build that
\* enumerated the workspace successfully and ran updateFile for every
\* enumerated file, never after a build whose file enumeration failed; and
\* the initial build is started at most once.
C28_ReadyOnlyAfterBuild ==
    /\ indexReady => BuiltFromAllFiles
    /\ bdStarts <= 1

\* ready is reported only when buildIndex has returned, and buildIndex is
\* called at most once
ReadyAfterBuildReturned ==
    /\ indexReady => bdStage \in {"built", "failed"}
    /\ bdStage = "built" => indexReady /\ BuiltFromAllFiles
    /\ bdStarts <= 1

\* a second C# editor is activated while the build runs
SecondActivationIgnored == ~(bdActivations = 2 /\ bdStarts = 1 /\ indexReady)

\* ---------------------------------------------------------------------
\* Move to base class, for classes with a declaration of two lines
\* ---------------------------------------------------------------------

\*     private int x = 3
\*         * 2;
TwoLineField ==
    [kind |-> "Field", name |-> <<"x">>, lead |-> <<>>,
     accessibility |-> TxtPrivate, rest |-> <<"i", "n", "t", " ", "x", " ", "=", " ", "3">>,
     tail |-> << <<"*", " ", "2", ";">> >>]

\* the two-line field, and the members that have lines before their
\* declaration
SpanBlocks == {TwoLineField} \cup {block \in MemberBlocks : block.lead # <<>>}

MvSpanInit ==
    /\ \E header \in SourceHeaders,
          members \in DistinctSeqs(SpanBlocks, 0, MaxMembers) :
        \E placement \in header.placements :
        LET source == [name |-> header.name, header |-> header.header,
                       base |-> header.base, members |-> members]
        IN  /\ mvClasses = CASE placement = "before" -> << BaseClass, source >>
                             [] placement = "after" -> << source, BaseClass >>
                             [] OTHER -> << source >>
            /\ mvText = DocumentText(mvClasses)
    /\ mvPos = NoCaret
    /\ mvContext = NoContext
    /\ mvEdit = NoMoveEdit

InitMoveSpan == MvSpanInit /\ IdleExcept("move")
SpecMoveSpan == InitMoveSpan /\ [][NextMove]_vars

EndOffset(range) == offsetAt(mvText, range.end)

\* two ranges share no character
Disjoint(a, b) ==
    EndOffset(a) <= StartOffset(b) \/ EndOffset(b) <= StartOffset(a)

DeletionsDisjoint ==
    \A i, j \in DOMAIN mvEdit.deletions :
        i # j => Disjoint(mvEdit.deletions[i], mvEdit.deletions[j])

MovedStartsDistinct ==
    \A a, b \in MovedSet :
        a.symbol # b.symbol
            => a.range.start # b.range.start /\ memberKey(a) # memberKey(b)

InsertionOutsideDeletions ==
    \A i \in DOMAIN mvEdit.deletions :
        ~(/\ StartOffset(mvEdit.deletions[i]) <= offsetAt(mvText, mvEdit.position)
          /\ offsetAt(mvText, mvEdit.position) < EndOffset(mvEdit.deletions[i]))

\* C29: in every edit built by buildMoveMemberWorkspaceEdit the deleted
\* ranges of the moved members are pairwise non-overlapping, distinct
\* members have distinct range starts (so distinct memberKey values), and
\* no deleted range contains the insertion position in the base class.
C29_DeletionsDisjoint ==
    (mvPos # <<>> /\ mvPos # NoCaret /\ mvEdit.defined)
        => /\ DeletionsDisjoint
           /\ MovedStartsDistinct
           /\ InsertionOutsideDeletions

\* the other two parts hold for the members of one edit
StartsDistinctAndInsertionOutside ==
    (mvPos # <<>> /\ mvPos # NoCaret /\ mvEdit.defined)
        => MovedStartsDistinct /\ InsertionOutsideDeletions

====
